---- MODULE Spec2Model ----
(***************************************************************************)
(* x402 API gateway: the payment middleware (x402Middleware), the error    *)
(* classifier, the endpoint base helpers that route a request to the       *)
(* payer's StorageDO, and the KV operations of that Durable Object.        *)
(*                                                                         *)
(* A request is a record that moves idle -> settling -> handler -> done.   *)
(* Each await of the middleware that leaves the worker (the settlement     *)
(* relay call, the handler with its Durable Object call) ends one action.  *)
(***************************************************************************)
EXTENDS Integers, Sequences, FiniteSets, TLC

VARIABLES
    env,        \* process configuration (c.env): recipient address, network
    req,        \* request slot -> the request, its Hono context and response
    shards,     \* STORAGE_DO: payer address -> that payer's kv table
    clock,      \* the time new Date() returns, in seconds
    db,         \* the locks and jobs tables of one StorageDO
    last,       \* the StorageDO method that ran last, its arguments and result
    ghost,      \* history of the method calls (not program state)
    cache,      \* the module-level model cache of the isolate
    lookups,    \* caller -> where its lookupModel call stands
    fetches,    \* the outbound model-list requests that are under way
    scans       \* the safety scans handed to executionCtx.waitUntil, under way

vars == <<env, req, shards, clock, db, last, ghost, cache, lookups, fetches, scans>>

\* The model cache, its callers and the requests to the catalog, and the
\* background scans of the isolate.
cacheVars == <<cache, lookups, fetches, scans>>

\* The state of the StorageDO called directly, and the clock.
doVars == <<clock, db, last, ghost>>

\* ------------------------------------------------------------------ bounds

\* Largest number of classifier keywords one relay error text contains.
MaxWords == 2

\* The latest time the clock reaches, in seconds.
MaxTime == 16

\* The latest time the clock reaches while the queue methods are called.
MaxQueueTime == 10

\* The number of jobs pushed to the queues of one shard.
MaxJobs == 2

\* By how many seconds the clock advances in one step.
Steps == {5, 6}

\* The number of model-list requests the isolate sends.
MaxRefreshes == 3

\* How often time passes between the lookups of the model cache.
MaxWaits == 2

\* ------------------------------------------------------------- value sets

\* JavaScript undefined, for string-valued headers and fields.
Absent == "absent"

\* Request slots: the worker serves requests in parallel.
Reqs == {"r1", "r2"}

Payers == {"SP_A", "SP_B"}

Keys == {"k"}

Values == {"v1", "v2"}

Networks == {"mainnet", "testnet"}

TOKENS == {"STX", "sBTC", "USDCx"}

\* A decimal string: BigInt.prototype.toString / String(number).
StrOf(n) == <<"dec", n>>

\* SQL NULL in a TEXT column that holds a time.
SqlNull == <<>>

\* Date.prototype.toISOString: a time as stored in a TEXT column.
Iso(t) == <<t>>

\* The ttl option of a call: undefined, a number of seconds, or a value that
\* Math.max and the arithmetic of Date turn into NaN.
UndefTtl == [kind |-> "undefined", n |-> 0]

NumTtl(n) == [kind |-> "number", n |-> n]

NanTtl == [kind |-> "nan", n |-> 0]

\* ------------------------------------------------------------ error texts

\* The substrings classifyPaymentError looks for.
Keywords ==
    {"fetch", "network", "timeout", "503", "unavailable", "insufficient",
     "balance", "expired", "nonce", "amount", "low", "minimum", "invalid",
     "signature", "recipient", "broadcast_failed", "broadcast failed",
     "transaction_failed", "transaction failed", "transaction_pending",
     "transaction pending", "sender_mismatch", "sender mismatch",
     "unsupported_scheme", "unsupported scheme"}

RECURSIVE WordSets(_)
WordSets(n) ==
    IF n = 0 THEN {{}}
    ELSE LET S == WordSets(n - 1) IN S \cup {s \cup {k} : s \in S, k \in Keywords}

\* An error text: the keywords it contains (spelled in lower case), and
\* whether the text as sent is in upper case.  defined = FALSE is undefined.
MkText(w, u) == [defined |-> TRUE, words |-> w, upper |-> u]

NoText == [defined |-> FALSE, words |-> {}, upper |-> FALSE]

AllTexts == {MkText(w, u) : w \in WordSets(MaxWords), u \in BOOLEAN}

SampleTexts ==
    {MkText({}, FALSE), MkText({"broadcast_failed"}, FALSE),
     MkText({"transaction_pending"}, TRUE), MkText({"fetch"}, FALSE)}

\* String.prototype.toLowerCase
toLowerCase(t) == [t EXCEPT !.upper = FALSE]

\* Faulty variant: the second text is dropped.
concatFirst(a, b) == [defined |-> TRUE, words |-> a.words, upper |-> a.upper]

\* `${a} ${b}`
concat(a, b) ==
    [defined |-> TRUE, words |-> a.words \cup b.words, upper |-> a.upper \/ b.upper]

\* String.prototype.includes with a lower-case needle
includes(t, k) == ~t.upper /\ k \in t.words

\* --------------------------------------------------------------- encoding

NoHeader == [kind |-> "absent"]

\* Whether field f of an object holds undefined (by the field's type).
IsUndefined(f, v) ==
    \/ f = "payer" /\ v = Absent
    \/ f = "accepted" /\ v = NoHeader
    \/ f = "errorReason" /\ ~v.defined

\* JSON.stringify: a field holding undefined is left out.
stringify(obj) == [f \in {g \in DOMAIN obj : ~IsUndefined(g, obj[g])} |-> obj[f]]

\* A header value that is not base64 of JSON.
Garbage == [kind |-> "garbage"]

encodeBase64Json(obj) == [kind |-> "b64json", json |-> stringify(obj)]

Null == [kind |-> "null"]

decodeBase64Json(h) == IF h.kind = "b64json" THEN h.json ELSE Null

\* --------------------------------------------------------------- pricing

\* Middleware options of each route: x402Middleware({ tier, dynamic }).
Endpoints == {"hash", "kvSet", "kvGet", "kvDelete", "chat", "models"}

StorageEndpoints == {"kvSet", "kvGet", "kvDelete"}

X402Options(ep) ==
    CASE ep = "chat" -> [tier |-> "standard", dynamic |-> TRUE]
      [] ep = "models" -> [tier |-> "free", dynamic |-> FALSE]
      [] OTHER -> [tier |-> "standard", dynamic |-> FALSE]

\* A route whose middleware asks for payment.
Priced(ep) == ~(X402Options(ep).tier = "free" /\ ~X402Options(ep).dynamic)

\* validateTokenType: the token, or an exception for an unknown one.
validateTokenTypeThrows(tokenTypeStr) == tokenTypeStr \notin TOKENS

\* getFixedTierEstimate(tier, tokenType).amountInToken, in atomic units.
getFixedTierEstimate(tier, tokenType) ==
    IF tier = "free" THEN 0
    ELSE CASE tokenType = "STX" -> 1000
           [] tokenType = "sBTC" -> 1
           [] OTHER -> 1000

\* estimateChatPayment(body, tokenType).amountInToken: cost with margin,
\* never below the minimum of the token.
estimateChatPayment(body, tokenType) ==
    LET min == getFixedTierEstimate("standard", tokenType)
        cost == IF body = "chat_large" THEN 5 * min ELSE 0
    IN  IF cost < min THEN min ELSE cost

TOKEN_CONTRACTS(network, tokenType) ==
    CASE network = "mainnet" /\ tokenType = "sBTC" ->
            "SM3VDXK3WZZSA84XXFKAFAF15NNZX32CTSG82JFQ4.sbtc-token"
      [] network = "mainnet" /\ tokenType = "USDCx" ->
            "SP120SBRBQJ00MCWS7TM5R8WJNTTKD5K0HFRC2CNE.usdcx"
      [] network = "testnet" /\ tokenType = "sBTC" ->
            "ST1F7QA2MDF17S807EPA36TSS8AMEFY4KA9TVGWXT.sbtc-token"
      [] OTHER -> "ST1PQHQKV0RJXZFY1DGX8MNSNYVE3VGZJSRTPGZGM.usdcx"

getAssetV2(tokenType, network) ==
    IF tokenType = "STX" THEN "STX" ELSE TOKEN_CONTRACTS(network, tokenType)

networkToCAIP2(network) == IF network = "mainnet" THEN "stacks:1" ELSE "stacks:2147483648"

\* The manifest generator's timeout of a tier.
getTimeoutForTier(tier) == IF tier = "dynamic" THEN 120 ELSE 60

\* ----------------------------------------------------- discovery manifest

\* How many endpoints a registry holds at most.
MaxEndpoints == 2

\* A path of the registry is a sequence of segments: a literal, or a
\* parameter (":key") that the manifest writes in braces ("{key}").
Lit(name) == [kind |-> "literal", name |-> name]

Param(name) == [kind |-> "colon", name |-> name]

EndpointInfo(path, method, tier) == [path |-> path, method |-> method, tier |-> tier]

\* The kinds of entry of ENDPOINT_REGISTRY, and with them a free endpoint
\* and an endpoint of a tier that TIER_PRICING does not list.
EndpointInfos ==
    {EndpointInfo(<<Lit("hashing"), Lit("sha256")>>, "POST", "standard"),
     EndpointInfo(<<Lit("storage"), Lit("kv"), Param("key")>>, "GET", "standard"),
     EndpointInfo(<<Lit("inference"), Lit("chat")>>, "POST", "dynamic"),
     EndpointInfo(<<Lit("health")>>, "GET", "free"),
     EndpointInfo(<<Lit("legacy")>>, "GET", "unlisted")}

Registries == UNION {[1..n -> EndpointInfos] : n \in 0..MaxEndpoints}

\* TIER_PRICING with the price of the standard tier in thousandths of STX:
\* the tier of an entry, or none.
TierPricing(stx) ==
    [tier \in {"free", "standard", "dynamic", "unlisted"} |->
        CASE tier = "free" -> [listed |-> TRUE, stx |-> 0]
          [] tier = "standard" -> [listed |-> TRUE, stx |-> stx]
          [] OTHER -> [listed |-> FALSE, stx |-> 0]]

\* The atomic units of each token that a thousandth of STX converts to.
Conversions == [TOKENS -> {0, 1, 1000}]

\* stxToTokenAmount(stx, token): the price in atomic units of the token,
\* rounded.
stxToTokenAmount(conversion, stx, token) == stx * conversion[token]

\* getAmountForTier
getAmountForTier(pricing, conversion, tier, token) ==
    IF tier = "free" THEN StrOf(0)
    ELSE LET effectiveTier == IF tier = "dynamic" THEN "standard" ELSE tier
             tierPricing == pricing[effectiveTier] IN
         IF ~tierPricing.listed \/ tierPricing.stx = 0 THEN StrOf(0)
         ELSE StrOf(stxToTokenAmount(conversion, tierPricing.stx, token))

\* normalizePath: path.replace(/:([^/]+)/g, "{$1}")
normalizePath(path) ==
    [i \in DOMAIN path |->
        IF path[i].kind = "colon" THEN [kind |-> "braces", name |-> path[i].name]
        ELSE path[i]]

\* The tokens in the order of the TOKENS array.
TokenOrder == <<"STX", "sBTC", "USDCx">>

RECURSIVE Accepts(_, _, _, _, _)

\* Faulty variant: a requirement is listed for every token.
AcceptsAll(config, pricing, conversion, info, i) ==
    [k \in 1..Len(TokenOrder) |->
        [scheme |-> "exact", network |-> networkToCAIP2(config.network),
         amount |-> getAmountForTier(pricing, conversion, info.tier, TokenOrder[k]),
         asset |-> TokenOrder[k], payTo |-> config.payTo,
         maxTimeoutSeconds |-> getTimeoutForTier(info.tier)]]

\* The loop of generateX402Manifest over TOKENS from token i on: one
\* requirement for each token whose amount is not "0".
Accepts(config, pricing, conversion, info, i) ==
    IF i > Len(TokenOrder) THEN <<>>
    ELSE LET amount == getAmountForTier(pricing, conversion, info.tier, TokenOrder[i])
             rest == Accepts(config, pricing, conversion, info, i + 1) IN
         IF amount = StrOf(0) THEN rest
         ELSE <<[scheme |-> "exact", network |-> networkToCAIP2(config.network),
                 amount |-> amount, asset |-> TokenOrder[i], payTo |-> config.payTo,
                 maxTimeoutSeconds |-> getTimeoutForTier(info.tier)]>> \o rest

\* The loop of generateX402Manifest over the registry from entry i on: a
\* free entry and an entry without a requirement are skipped.
RECURSIVE ManifestItems(_, _, _, _, _, _)
ManifestItems(config, registry, pricing, conversion, timestamp, i) ==
    IF i > Len(registry) THEN <<>>
    ELSE LET info == registry[i]
             accepts == Accepts(config, pricing, conversion, info, 1)
             rest == ManifestItems(config, registry, pricing, conversion, timestamp, i + 1) IN
         IF info.tier = "free" \/ accepts = <<>> THEN rest
         ELSE <<[resource |-> [baseUrl |-> config.baseUrl, path |-> normalizePath(info.path)],
                 type |-> "http", x402Version |-> 2, accepts |-> accepts,
                 lastUpdated |-> timestamp]>> \o rest

\* generateX402Manifest(config) over a registry and a price table.
generateX402Manifest(config, registry, pricing, conversion, now) ==
    [x402Version |-> 2,
     items |-> ManifestItems(config, registry, pricing, conversion, now, 1)]

\* ------------------------------------------------------- error classifier

Classified(code, httpStatus, retryAfter) ==
    [code |-> code, httpStatus |-> httpStatus, retryAfter |-> retryAfter]

\* classifyPaymentError(error, settleResult): error is the exception or the
\* error reason, resultReason is settleResult?.errorReason.  retryAfter 0
\* stands for a result without retryAfter (the middleware tests it for truth).
classifyPaymentError(error, resultReason) ==
    LET errorStr == toLowerCase(error)
        resultError == IF resultReason.defined THEN toLowerCase(resultReason)
                       ELSE MkText({}, FALSE)
        combined == concat(errorStr, resultError)
        has(k) == includes(combined, k)
    IN  IF has("fetch") \/ has("network") \/ has("timeout")
          THEN Classified("UNEXPECTED_SETTLE_ERROR", 502, 5)
        ELSE IF has("503") \/ has("unavailable")
          THEN Classified("UNEXPECTED_SETTLE_ERROR", 503, 30)
        ELSE IF has("insufficient") \/ has("balance")
          THEN Classified("INSUFFICIENT_FUNDS", 402, 0)
        ELSE IF has("expired") \/ has("nonce")
          THEN Classified("INVALID_TRANSACTION_STATE", 402, 0)
        ELSE IF has("amount") /\ (has("low") \/ has("minimum"))
          THEN Classified("AMOUNT_INSUFFICIENT", 402, 0)
        ELSE IF has("invalid") \/ has("signature")
          THEN Classified("INVALID_PAYLOAD", 400, 0)
        ELSE IF has("recipient")
          THEN Classified("RECIPIENT_MISMATCH", 400, 0)
        ELSE IF has("broadcast_failed") \/ has("broadcast failed")
          THEN Classified("UNEXPECTED_SETTLE_ERROR", 502, 5)
        ELSE IF has("transaction_failed") \/ has("transaction failed")
          THEN Classified("INVALID_TRANSACTION_STATE", 402, 0)
        ELSE IF has("transaction_pending") \/ has("transaction pending")
          THEN Classified("INVALID_TRANSACTION_STATE", 402, 10)
        ELSE IF has("sender_mismatch") \/ has("sender mismatch")
          THEN Classified("SENDER_MISMATCH", 400, 0)
        ELSE IF has("unsupported_scheme") \/ has("unsupported scheme")
          THEN Classified("INVALID_PAYLOAD", 400, 0)
        ELSE Classified("UNEXPECTED_SETTLE_ERROR", 500, 5)

\* --------------------------------------------------------------- requests

\* What the client sends.  hdrToken is the X-PAYMENT-TOKEN-TYPE header,
\* qryToken the tokenType query parameter, paymentSignature the
\* payment-signature header, xPayment the X-PAYMENT header, clientPayer a
\* payer address the client names itself (X-PAYER-ADDRESS header, query
\* parameter or body field), value the value of a kv set.
NoInput ==
    [ep |-> "none", hdrToken |-> Absent, qryToken |-> Absent, body |-> "json",
     paymentSignature |-> NoHeader, xPayment |-> NoHeader, clientPayer |-> Absent,
     key |-> "k", value |-> Absent, ttl |-> UndefTtl]

\* The requirement a client echoes in its payload.
Accepted == [kind |-> "requirement"]

PaymentPayload(version, accepted) ==
    [x402Version |-> version, accepted |-> accepted, payload |-> "signed-transaction"]

PaymentHeaders ==
    {NoHeader, Garbage}
    \cup {encodeBase64Json(PaymentPayload(v, a)) : v \in {1, 2}, a \in {NoHeader, Accepted}}

Bodies(ep) == IF X402Options(ep).dynamic THEN {"invalid_json", "chat_small", "chat_large"}
              ELSE {"json"}

\* Every request of the payment state machine.
AllInputs ==
    {[ep |-> e, hdrToken |-> h, qryToken |-> q, body |-> b, paymentSignature |-> p,
      xPayment |-> x, clientPayer |-> cp, key |-> k, value |-> v, ttl |-> UndefTtl] :
        e \in Endpoints, h \in {Absent, "sBTC", "DOGE"}, q \in {Absent, "USDCx"},
        b \in {"json", "invalid_json", "chat_small", "chat_large"},
        p \in PaymentHeaders,
        x \in {NoHeader, encodeBase64Json(PaymentPayload(2, Accepted))},
        cp \in {Absent, "SP_B"}, k \in Keys, v \in Values \cup {Absent}}

WellFormed(in) ==
    /\ in.body \in Bodies(in.ep)
    /\ (in.value # Absent) <=> (in.ep = "kvSet")
    /\ (in.clientPayer # Absent) => (in.ep \in StorageEndpoints)

PaymentInputs == {in \in AllInputs : WellFormed(in)}

\* Paid storage requests, each naming the other payer as its own.
ShardInputs ==
    {in \in PaymentInputs :
        /\ in.ep \in StorageEndpoints
        /\ in.hdrToken = Absent /\ in.qryToken = Absent
        /\ in.xPayment = NoHeader
        /\ in.paymentSignature = encodeBase64Json(PaymentPayload(2, Accepted))}

\* A requirement in a client's payload that names a lower amount and the
\* client as recipient.
AcceptedCheap == [kind |-> "requirement", amount |-> StrOf(0), payTo |-> "SP_CLIENT"]

\* Paid requests to every route with every token, whose payload echoes the
\* requirement of the challenge, one of the client's own making, or none.
RelayInputs ==
    {[in EXCEPT !.paymentSignature = encodeBase64Json(PaymentPayload(2, a))] :
        in \in {i \in PaymentInputs : i.paymentSignature = NoHeader /\ i.xPayment = NoHeader
                                        /\ i.clientPayer = Absent},
        a \in {NoHeader, Accepted, AcceptedCheap}}

\* Paid requests to one fixed-tier route.
SettleInputs ==
    {in \in PaymentInputs :
        /\ in.ep = "hash"
        /\ in.hdrToken = Absent /\ in.qryToken = Absent
        /\ in.xPayment = NoHeader
        /\ in.paymentSignature = encodeBase64Json(PaymentPayload(2, Accepted))}

\* ------------------------------------------------------- request context

\* A settlement result that was never returned.
NoResult ==
    [success |-> FALSE, transaction |-> "", network |-> "", payer |-> Absent,
     errorReason |-> NoText]

\* No outcome of verifier.settle yet.
NoSettle == [kind |-> "none", error |-> NoText, result |-> NoResult]

\* c.get("x402") before the middleware sets it.
NoCtx == [set |-> FALSE, payerAddress |-> Absent, settleResult |-> NoResult]

\* The response headers set on the context with c.header.
NoHdrs ==
    [paymentRequired |-> NoHeader, paymentResponse |-> NoHeader,
     payerAddress |-> Absent, retryAfter |-> 0]

NoBody == [kind |-> "none"]

\* A request slot that holds no request.
IdleReq ==
    [pc |-> "idle", in |-> NoInput, x402 |-> NoCtx, hdrs |-> NoHdrs, status |-> 0,
     resBody |-> NoBody, relayCalled |-> FALSE, relayArgs |-> NoBody,
     settle |-> NoSettle, handlerRan |-> FALSE, shardUsed |-> Absent]

\* c.json(body, status): the response carries the headers set on the context.
cjson(c, body, status) == [c EXCEPT !.pc = "done", !.status = status, !.resBody = body]

\* next(): the route's handler runs after the middleware.
next(c) == [c EXCEPT !.pc = "handler"]

\* -------------------------------------------------------------- middleware

\* c.req.header("X-PAYMENT-TOKEN-TYPE") || c.req.query("tokenType") || "STX"
tokenTypeStr(in) ==
    IF in.hdrToken # Absent THEN in.hdrToken
    ELSE IF in.qryToken # Absent THEN in.qryToken ELSE "STX"

\* if (!c.env.X402_SERVER_ADDRESS)
Unconfigured(e) == e.X402_SERVER_ADDRESS = ""

\* The price of the request in atomic units of the token.
priceEstimate(in, tokenType) ==
    IF X402Options(in.ep).dynamic THEN estimateChatPayment(in.body, tokenType)
    ELSE getFixedTierEstimate(X402Options(in.ep).tier, tokenType)

\* maxTimeoutSeconds of the requirement the middleware builds.
maxTimeoutSeconds(opts) == 300

\* Faulty variant: the amount and the recipient are taken from the
\* requirement the payload claims to have accepted, when it names them.
paymentRequirementsAccepted(in, tokenType, e) ==
    LET payload == decodeBase64Json(in.paymentSignature)
        named == /\ payload # Null /\ "accepted" \in DOMAIN payload
                 /\ payload.accepted = AcceptedCheap IN
    [scheme |-> "exact",
     network |-> networkToCAIP2(e.X402_NETWORK),
     amount |-> IF named THEN payload.accepted.amount
                ELSE StrOf(priceEstimate(in, tokenType)),
     asset |-> getAssetV2(tokenType, e.X402_NETWORK),
     payTo |-> IF named THEN payload.accepted.payTo ELSE e.X402_SERVER_ADDRESS,
     maxTimeoutSeconds |-> maxTimeoutSeconds(X402Options(in.ep)),
     pricing |-> IF X402Options(in.ep).dynamic THEN "dynamic" ELSE "fixed"]

\* const paymentRequirements: PaymentRequirementsV2 = { ... }
paymentRequirements(in, tokenType, e) ==
    [scheme |-> "exact",
     network |-> networkToCAIP2(e.X402_NETWORK),
     amount |-> StrOf(priceEstimate(in, tokenType)),
     asset |-> getAssetV2(tokenType, e.X402_NETWORK),
     payTo |-> e.X402_SERVER_ADDRESS,
     maxTimeoutSeconds |-> maxTimeoutSeconds(X402Options(in.ep)),
     pricing |-> IF X402Options(in.ep).dynamic THEN "dynamic" ELSE "fixed"]

\* Faulty variant: the challenge always quotes the native token.
acceptsNative(in, tokenType, e) == <<paymentRequirements(in, "STX", e)>>

\* accepts of the 402 challenge.
accepts(in, tokenType, e) == <<paymentRequirements(in, tokenType, e)>>

paymentRequired(in, tokenType, e) ==
    [x402Version |-> 2, resource |-> in.ep, accepts |-> accepts(in, tokenType, e),
     extensions |-> "bazaar"]

\* c.req.header(X402_HEADERS.PAYMENT_SIGNATURE)
paymentSignature(in) == in.paymentSignature

\* Faulty variant: the protocol version of the payload is not tested.
PayloadValidAnyVersion(payload) == payload # Null

\* if (!paymentPayload || paymentPayload.x402Version !== 2) is false
PayloadValid(payload) == payload # Null /\ payload.x402Version = 2

\* Faulty variant: the success flag of the settlement result is not tested.
SettleSucceededAlways(settleResult) == TRUE

\* if (!settleResult.success) is false
SettleSucceeded(settleResult) == settleResult.success

\* Faulty variant: the payer of the settlement result is not tested.
PayerPresentAlways(payerAddress) == TRUE

\* if (!payerAddress) is false
PayerPresent(payerAddress) == payerAddress \notin {Absent, ""}

\* The headers of the success path: payment-response and X-PAYER-ADDRESS.
ReceiptHeaders(hdrs, settleResult, payerAddress) ==
    [hdrs EXCEPT !.paymentResponse = encodeBase64Json(settleResult),
                 !.payerAddress = payerAddress]

\* Faulty variant: Retry-After is never set.
RetryAfterHeaderNever(hdrs, classified) == hdrs

\* if (classified.retryAfter) c.header("Retry-After", String(classified.retryAfter))
RetryAfterHeader(hdrs, classified) ==
    IF classified.retryAfter # 0 THEN [hdrs EXCEPT !.retryAfter = classified.retryAfter]
    ELSE hdrs

errorBody(kind, code) == [kind |-> kind, code |-> code]

\* The middleware from its start to its first call out of the worker.
MiddlewareStart(c, e) ==
    LET in == c.in
        opts == X402Options(in.ep)
        tokenType == tokenTypeStr(in)
        sig == paymentSignature(in)
        payload == decodeBase64Json(sig)
    IN  IF Unconfigured(e) THEN next(c)
        ELSE IF validateTokenTypeThrows(tokenType)
          THEN cjson(c, errorBody("invalid_token_type", "none"), 400)
        ELSE IF opts.dynamic /\ in.body = "invalid_json"
          THEN cjson(c, errorBody("invalid_json", "none"), 400)
        ELSE IF opts.tier = "free" /\ ~opts.dynamic
          THEN next([c EXCEPT !.x402 =
                    [set |-> TRUE, payerAddress |-> "anonymous",
                     settleResult |-> [success |-> TRUE, transaction |-> "",
                                       network |-> networkToCAIP2(e.X402_NETWORK),
                                       payer |-> "anonymous", errorReason |-> NoText]]])
        ELSE IF sig = NoHeader
          THEN cjson([c EXCEPT !.hdrs.paymentRequired =
                         encodeBase64Json(paymentRequired(in, tokenType, e))],
                     [kind |-> "payment_required",
                      json |-> stringify(paymentRequired(in, tokenType, e))], 402)
        ELSE IF ~PayloadValid(payload)
          THEN cjson(c, errorBody("invalid_payment_signature", "INVALID_PAYLOAD"), 400)
        ELSE [c EXCEPT !.pc = "settling", !.relayCalled = TRUE,
                       !.relayArgs = [kind |-> "settle", payload |-> payload,
                                      requirements |-> paymentRequirements(in, tokenType, e)]]

\* What verifier.settle can do: throw, return a result without success (with
\* or without a payer), or return success (with a payer, an empty one, none).
Outcomes(Texts, network) ==
    {[kind |-> "throw", error |-> t, result |-> NoResult] : t \in Texts}
    \cup {[kind |-> "result", error |-> NoText,
           result |-> [success |-> FALSE, transaction |-> "", network |-> network,
                       payer |-> p, errorReason |-> t]] :
                t \in Texts \cup {NoText}, p \in {Absent, "SP_A"}}
    \cup {[kind |-> "result", error |-> NoText,
           result |-> [success |-> TRUE, transaction |-> "0xtx", network |-> network,
                       payer |-> p, errorReason |-> NoText]] : p \in Payers \cup {"", Absent}}

\* settleResult.errorReason || "settlement_failed"
errorReasonOrDefault(settleResult) ==
    IF settleResult.errorReason.defined THEN settleResult.errorReason
    ELSE MkText({}, FALSE)

\* The response to a settlement that threw or did not succeed.
settleErrorResponse(c, classified, detail) ==
    cjson([c EXCEPT !.hdrs = RetryAfterHeader(c.hdrs, classified)],
          [kind |-> detail, code |-> classified.code], classified.httpStatus)

\* The middleware from the return of verifier.settle to next().
MiddlewareSettled(c0, outcome) ==
    LET c == [c0 EXCEPT !.settle = outcome]
        settleResult == outcome.result
        payerAddress == settleResult.payer
    IN  IF outcome.kind = "throw"
          THEN settleErrorResponse(c, classifyPaymentError(outcome.error, NoText),
                                   "settlement_exception")
        ELSE IF ~SettleSucceeded(settleResult)
          THEN settleErrorResponse(c,
                   classifyPaymentError(errorReasonOrDefault(settleResult),
                                        settleResult.errorReason),
                   "settlement_failed")
        ELSE IF ~PayerPresent(payerAddress)
          THEN cjson(c, errorBody("no_payer", "SENDER_MISMATCH"), 500)
        ELSE next([c EXCEPT
                    !.x402 = [set |-> TRUE, payerAddress |-> payerAddress,
                              settleResult |-> settleResult],
                    !.hdrs = ReceiptHeaders(c.hdrs, settleResult, payerAddress)])

\* ---------------------------------------------------------------- handlers

\* Faulty variant: a payer address named by the client is preferred to the context.
getPayerAddressFromClient(c) ==
    IF c.in.clientPayer # Absent THEN c.in.clientPayer
    ELSE IF c.x402.set /\ c.x402.payerAddress \notin {Absent, ""} THEN c.x402.payerAddress
    ELSE Absent

\* BaseEndpoint.getPayerAddress: the payer of the x402 context, or null.
getPayerAddress(c) ==
    IF c.x402.set /\ c.x402.payerAddress \notin {Absent, ""} THEN c.x402.payerAddress
    ELSE Absent

\* Faulty variant: every name is routed to one shared Durable Object.
idFromNameShared(name) == "SP_A"

\* c.env.STORAGE_DO.idFromName(name): one Durable Object per name.
idFromName(name) == name

\* BaseEndpoint.getStorageDO: the shard of the bound payer, or null.
getStorageDO(c) ==
    IF getPayerAddress(c) = Absent THEN Absent ELSE idFromName(getPayerAddress(c))

\* No row of the kv table for a key.
NoRow == [present |-> FALSE, value |-> Absent, expires_at |-> SqlNull]

\* A kv table without rows.
EmptyKv == [k \in Keys |-> NoRow]

\* StorageDO.cleanupExpired('kv'):
\* DELETE FROM kv WHERE expires_at IS NOT NULL AND expires_at < now
cleanupExpired(kv, now) ==
    [k \in DOMAIN kv |->
        IF kv[k].present /\ kv[k].expires_at # SqlNull /\ kv[k].expires_at[1] < now
        THEN NoRow ELSE kv[k]]

\* options?.ttl ? new Date(Date.now() + options.ttl * 1000).toISOString() : null
kvExpiresAt(ttl, now) ==
    IF ttl.kind = "number" /\ ttl.n # 0 THEN Iso(now + ttl.n) ELSE SqlNull

\* Faulty variant: the set returns without writing the row.
kvSetLost(kv, key, value, ttl, now) ==
    [kv |-> kv, created |-> ~kv[key].present, threw |-> ttl.kind = "nan"]

\* StorageDO.kvSet: created iff SELECT 1 FROM kv WHERE key = ? finds no row,
\* then the upsert; toISOString throws for a ttl that is not a number.
kvSet(kv, key, value, ttl, now) ==
    IF ttl.kind = "nan" THEN [kv |-> kv, created |-> FALSE, threw |-> TRUE]
    ELSE [kv |-> [kv EXCEPT ![key] = [present |-> TRUE, value |-> value,
                                      expires_at |-> kvExpiresAt(ttl, now)]],
          created |-> ~kv[key].present, threw |-> FALSE]

\* StorageDO.kvGet: cleanupExpired, then the value of the row, or null.
kvGet(kv, key, now) ==
    LET t == cleanupExpired(kv, now)
    IN  [kv |-> t, value |-> IF t[key].present THEN t[key].value ELSE Absent]

\* Faulty variant: the delete reports the row deleted and keeps it.
kvDeleteKeeps(kv, key) == [kv |-> kv, deleted |-> kv[key].present]

\* StorageDO.kvDelete
kvDelete(kv, key) ==
    [kv |-> [kv EXCEPT ![key] = NoRow], deleted |-> kv[key].present]

\* The keys of a kv table in the order of ORDER BY key.
KeysInOrder(kv) ==
    LET Less(a, b) == a = "j" /\ b = "k"
        n == Cardinality(DOMAIN kv)
    IN  CHOOSE o \in [1..n -> DOMAIN kv] :
            /\ \A i, j \in 1..n : i < j => o[i] # o[j] /\ ~Less(o[j], o[i])

\* StorageDO.kvList without a prefix: cleanupExpired, then the keys of the
\* rows in the order of the keys, at most Math.min(limit || 100, 1000).
kvList(kv, limit, now) ==
    LET t == cleanupExpired(kv, now)
        all == SelectSeq(KeysInOrder(t), LAMBDA k : t[k].present)
        n == IF limit = 0 THEN 100 ELSE IF limit < 1000 THEN limit ELSE 1000
    IN  [kv |-> t, keys |-> SubSeq(all, 1, IF n < Len(all) THEN n ELSE Len(all))]

\* What generateRandomString(8) can return.
PasteIds == {"p1", "p2"}

Contents == {"c1", "c2"}

\* The ttl a caller passes to create.
PasteTtls == {UndefTtl, NumTtl(5), NanTtl}

\* No row of the pastes table for an id.
NoPaste == [present |-> FALSE, content |-> Absent, expires_at |-> SqlNull]

\* StorageDO.cleanupExpired('pastes')
cleanupExpiredPastes(pastes, now) ==
    [i \in DOMAIN pastes |->
        IF /\ pastes[i].present /\ pastes[i].expires_at # SqlNull
           /\ pastes[i].expires_at[1] < now
        THEN NoPaste ELSE pastes[i]]

\* StorageDO.pasteCreate; id is what generateRandomString(8) returned.
\* toISOString throws for a ttl that is not a number, and the INSERT throws
\* when a row has the id (id TEXT PRIMARY KEY).
pasteCreate(pastes, content, ttl, now, id) ==
    IF ttl.kind = "nan" \/ pastes[id].present
    THEN [pastes |-> pastes, id |-> Absent, threw |-> TRUE]
    ELSE [pastes |-> [pastes EXCEPT ![id] =
                        [present |-> TRUE, content |-> content,
                         expires_at |-> kvExpiresAt(ttl, now)]],
          id |-> id, threw |-> FALSE]

\* Faulty variant: the get reads the row without the sweep of expired rows.
pasteGetUnswept(pastes, id, now) ==
    [pastes |-> pastes,
     found |-> pastes[id].present, content |-> pastes[id].content]

\* StorageDO.pasteGet: cleanupExpired, then the row of the id, or null.
pasteGet(pastes, id, now) ==
    LET t == cleanupExpiredPastes(pastes, now)
    IN  [pastes |-> t, found |-> t[id].present, content |-> t[id].content]

\* StorageDO.pasteDelete
pasteDelete(pastes, id) ==
    [pastes |-> [pastes EXCEPT ![id] = NoPaste], deleted |-> pastes[id].present]

\* BaseEndpoint.errorResponse
errorResponse(c, error, status) == cjson(c, [kind |-> "error", error |-> error], status)

\* Faulty variant: the error handler answers with a response built from scratch.
onErrorFresh(c) ==
    cjson([c EXCEPT !.hdrs = NoHdrs], [kind |-> "error", error |-> "Internal server error"], 500)

\* app.onError: the response to an exception of the handler.
onError(c) == cjson(c, [kind |-> "error", error |-> "Internal server error"], 500)

\* BaseEndpoint.getTokenType throws for an unknown token.
getTokenTypeThrows(c) == validateTokenTypeThrows(tokenTypeStr(c.in))

\* The handlers that use no storage: the hashing, chat and model-list routes.
\* how is what the handler's own work comes to.
PlainHandler(c, how) ==
    CASE how = "ok" -> cjson(c, [kind |-> "ok", value |-> Absent], 200)
      [] how = "bad_request" -> errorResponse(c, "bad request", 400)
      [] OTHER -> errorResponse(c, "upstream failed", 500)

\* KvSet.handle, KvGet.handle, KvDelete.handle on the kv table of the shard.
StorageHandler(c, kv, now) ==
    LET in == c.in IN
    CASE in.ep = "kvSet" ->
            [c |-> IF kvSet(kv, in.key, in.value, in.ttl, now).threw THEN onError(c)
                   ELSE cjson(c, [kind |-> "ok", value |-> Absent], 200),
             kv |-> kvSet(kv, in.key, in.value, in.ttl, now).kv]
      [] in.ep = "kvGet" ->
            [c |-> IF kvGet(kv, in.key, now).value = Absent
                   THEN errorResponse(c, "not found", 404)
                   ELSE cjson(c, [kind |-> "ok", value |-> kvGet(kv, in.key, now).value], 200),
             kv |-> kvGet(kv, in.key, now).kv]
      [] OTHER ->
            [c |-> cjson(c, [kind |-> "ok", value |-> Absent], 200),
             kv |-> kvDelete(kv, in.key).kv]

\* ------------------------------------------------------ locks and queues

LockNames == {"x"}

\* What generateRandomString(32) can return.
Tokens == {"t1", "t2"}

\* The ttl a caller passes to lock and extend.
LockTtls == {UndefTtl, NumTtl(5), NumTtl(12), NumTtl(400), NanTtl}

\* No row of the locks table for a name.
\* (acquired_at is written by syncLock and read by syncList only.)
NoLock == [present |-> FALSE, token |-> Absent, expires_at |-> 0]

\* Faulty variant: the DELETE has no WHERE clause.
cleanupExpiredLocksAll(locks, now) == [n \in DOMAIN locks |-> NoLock]

\* StorageDO.cleanupExpiredLocks: DELETE FROM locks WHERE expires_at < now
cleanupExpiredLocks(locks, now) ==
    [n \in DOMAIN locks |->
        IF locks[n].present /\ locks[n].expires_at < now THEN NoLock ELSE locks[n]]

Min(a, b) == IF a < b THEN a ELSE b

Max(a, b) == IF a > b THEN a ELSE b

\* Faulty variant: the ttl is used as given.
lockTtlUnclamped(ttl) == IF ttl.kind = "undefined" THEN 60 ELSE ttl.n

\* Math.min(Math.max(options?.ttl ?? 60, 10), 300)
lockTtl(ttl) == Min(Max(IF ttl.kind = "undefined" THEN 60 ELSE ttl.n, 10), 300)

\* The result of a lock method; expiresAt 0 and token Absent stand for null.
LockResult(ok, token, expiresAt, error) ==
    [ok |-> ok, threw |-> FALSE, token |-> token, expiresAt |-> expiresAt, error |-> error]

\* toISOString of an invalid Date throws a RangeError.
LockThrew ==
    [ok |-> FALSE, threw |-> TRUE, token |-> Absent, expiresAt |-> 0, error |-> "RangeError"]

\* Faulty variant: a lock is held until its row is deleted, expired or not.
lockHeldWhilePresent(row, now) == row.present

\* existing.length > 0 && new Date(lockExpiresAt) > now
lockHeld(row, now) == row.present /\ row.expires_at > now

\* StorageDO.syncLock; token is what generateRandomString(32) returns.
syncLock(locks, name, ttl, now, token) ==
    LET t == cleanupExpiredLocks(locks, now)
    IN  IF ttl.kind = "nan" THEN [locks |-> t, res |-> LockThrew]
        ELSE IF lockHeld(t[name], now)
          THEN [locks |-> t, res |-> LockResult(FALSE, Absent, 0, "held")]
        ELSE [locks |-> [t EXCEPT ![name] =
                            [present |-> TRUE, token |-> token,
                             expires_at |-> now + lockTtl(ttl)]],
              res |-> LockResult(TRUE, token, now + lockTtl(ttl), "")]

\* Faulty variant: any token of the right length is taken for the holder's.
tokenMatchesAny(row, token) == TRUE

\* existing[0].token !== token is false
tokenMatches(row, token) == row.token = token

\* StorageDO.syncUnlock
syncUnlock(locks, name, token) ==
    IF ~locks[name].present
      THEN [locks |-> locks, res |-> LockResult(FALSE, Absent, 0, "Lock not found")]
    ELSE IF ~tokenMatches(locks[name], token)
      THEN [locks |-> locks, res |-> LockResult(FALSE, Absent, 0, "Invalid token")]
    ELSE [locks |-> [locks EXCEPT ![name] = NoLock], res |-> LockResult(TRUE, Absent, 0, "")]

\* StorageDO.syncExtend
syncExtend(locks, name, token, ttl, now) ==
    IF ~locks[name].present
      THEN [locks |-> locks, res |-> LockResult(FALSE, Absent, 0, "Lock not found")]
    ELSE IF ~tokenMatches(locks[name], token)
      THEN [locks |-> locks, res |-> LockResult(FALSE, Absent, 0, "Invalid token")]
    ELSE IF locks[name].expires_at < now
      THEN [locks |-> [locks EXCEPT ![name] = NoLock],
            res |-> LockResult(FALSE, Absent, 0, "Lock has expired")]
    ELSE IF ttl.kind = "nan" THEN [locks |-> locks, res |-> LockThrew]
    ELSE [locks |-> [locks EXCEPT ![name].expires_at = now + lockTtl(ttl)],
          res |-> LockResult(TRUE, Absent, now + lockTtl(ttl), "")]

\* StorageDO.syncStatus
syncStatus(locks, name, now) ==
    LET t == cleanupExpiredLocks(locks, now)
    IN  [locks |-> t,
         res |-> LockResult(t[name].present, Absent, t[name].expires_at, "")]

Queues == {"q"}

\* The items of a push call.
Batches == {<<"a">>, <<"a", "b">>}

Priorities == {0, 1}

\* The count a caller passes to pop and peek.
Counts == {0, 2}

\* JSON.stringify(item) and JSON.parse(payload)
JsonText(item) == <<"json", item>>

JsonParse(payload) == payload[2]

\* The rows one queuePush call inserts, in the order of the items; the ids
\* generateRandomString(16, "job_") returns are taken to be new ones, and
\* stand for the order in which the jobs were pushed.
NewJobs(queue, items, priority, now, seq) ==
    [i \in 1..Len(items) |->
        [id |-> seq + i, queue |-> queue, payload |-> JsonText(items[i]),
         priority |-> priority, status |-> "pending", attempt |-> 0,
         available_at |-> now, visibility_timeout |-> SqlNull, created_at |-> now]]

\* StorageDO.queuePush: jobs is the table in rowid order.
queuePush(jobs, queue, items, priority, now, seq) ==
    [jobs |-> jobs \o NewJobs(queue, items, priority, now, seq), pushed |-> Len(items)]

\* WHERE queue = ? AND status = 'processing' AND visibility_timeout < ?
Elapsed(j, queue, now) ==
    /\ j.queue = queue /\ j.status = "processing"
    /\ j.visibility_timeout # SqlNull
    /\ j.visibility_timeout[1] < now

\* Faulty variant: the job returns to pending with its attempt unchanged.
cleanupVisibilityTimeoutsSameAttempt(jobs, queue, now) ==
    [i \in DOMAIN jobs |->
        IF Elapsed(jobs[i], queue, now)
        THEN [jobs[i] EXCEPT !.status = "pending", !.visibility_timeout = SqlNull]
        ELSE jobs[i]]

\* StorageDO.cleanupVisibilityTimeouts
cleanupVisibilityTimeouts(jobs, queue, now) ==
    [i \in DOMAIN jobs |->
        IF Elapsed(jobs[i], queue, now)
        THEN [jobs[i] EXCEPT !.status = "pending", !.visibility_timeout = SqlNull,
                             !.attempt = @ + 1]
        ELSE jobs[i]]

Rows(jobs) == {jobs[i] : i \in DOMAIN jobs}

\* Math.min(Math.max(count, 1), 100)
safeCount(count) == Min(Max(count, 1), 100)

\* Row a sorts before row b under ORDER BY priority DESC, created_at ASC.
SortsBefore(a, b) ==
    \/ a.priority > b.priority
    \/ a.priority = b.priority /\ a.created_at < b.created_at

RECURSIVE Perms(_)
Perms(S) ==
    IF S = {} THEN {<<>>}
    ELSE UNION {{<<x>> \o p : p \in Perms(S \ {x})} : x \in S}

\* The orders in which a SELECT ... ORDER BY priority DESC, created_at ASC
\* can return the rows: rows with equal keys come in any order.
OrderBy(rows) ==
    {o \in Perms(rows) : \A i, j \in DOMAIN o : i < j => ~SortsBefore(o[j], o[i])}

\* LIMIT n
Limit(o, n) == SubSeq(o, 1, Min(n, Len(o)))

\* WHERE queue = ? AND status = 'pending' AND available_at <= ?
PopRows(jobs, queue, now) ==
    {j \in Rows(jobs) : j.queue = queue /\ j.status = "pending" /\ j.available_at <= now}

\* WHERE queue = ? AND status = 'pending'
PeekRows(jobs, queue) == {j \in Rows(jobs) : j.queue = queue /\ j.status = "pending"}

\* Faulty variant: a popped job is kept as a processing job.
TakeJobs(jobs, ids, now) ==
    [i \in DOMAIN jobs |->
        IF jobs[i].id \in ids
        THEN [jobs[i] EXCEPT !.status = "processing", !.visibility_timeout = Iso(now)]
        ELSE jobs[i]]

\* DELETE FROM jobs WHERE id = ?, for each job of the pop
DeleteJobs(jobs, ids, now) == SelectSeq(jobs, LAMBDA j : j.id \notin ids)

\* StorageDO.queuePop; rows is the result of the SELECT, in its order.
queuePop(jobs, queue, count, now, rows) ==
    [jobs |-> DeleteJobs(jobs, {rows[i].id : i \in DOMAIN rows}, now),
     items |-> [i \in DOMAIN rows |->
                  [id |-> rows[i].id, data |-> JsonParse(rows[i].payload)]],
     count |-> Len(rows)]

\* StorageDO.queuePeek; rows is the result of the SELECT, in its order.
queuePeek(jobs, queue, count, rows) ==
    [jobs |-> jobs,
     items |-> [i \in DOMAIN rows |->
                  [id |-> rows[i].id, data |-> JsonParse(rows[i].payload),
                   priority |-> rows[i].priority]],
     count |-> Len(rows)]

\* SELECT status, COUNT(*) FROM jobs WHERE queue = ? GROUP BY status
CountOf(jobs, queue, status) ==
    Cardinality({j \in Rows(jobs) : j.queue = queue /\ j.status = status})

\* StorageDO.queueStatus
queueStatus(jobs, queue) ==
    [jobs |-> jobs,
     pending |-> CountOf(jobs, queue, "pending"),
     processing |-> CountOf(jobs, queue, "processing"),
     completed |-> CountOf(jobs, queue, "completed"),
     failed |-> CountOf(jobs, queue, "failed") + CountOf(jobs, queue, "dead")]

\* StorageDO.queueClear without a status: DELETE FROM jobs WHERE queue = ?
queueClear(jobs, queue) ==
    [jobs |-> SelectSeq(jobs, LAMBDA j : j.queue # queue),
     cleared |-> Cardinality({j \in Rows(jobs) : j.queue = queue})]

\* ------------------------------------------------------------ SQL sandbox

\* const systemTables
SystemTables == {"KV", "PASTES", "LOCKS", "JOBS", "MEMORIES", "CONTENT_SCANS"}

\* const dangerous
Dangerous == {"DROP", "DELETE", "INSERT", "UPDATE", "CREATE", "ALTER", "PRAGMA"}

\* One SQL statement of a query text, in upper case: its first keyword, the
\* table it names, the column it selects, and the job an UPDATE names.
Stmt(verb, table, cols, id) == [verb |-> verb, table |-> table, cols |-> cols, id |-> id]

\* SELECT * FROM locks
SelectLocks == Stmt("SELECT", "LOCKS", "*", 0)

\* SELECT created_at FROM jobs
SelectJobsCreatedAt == Stmt("SELECT", "JOBS", "CREATED_AT", 0)

\* SELECT * FROM notes
SelectNotes == Stmt("SELECT", "NOTES", "*", 0)

\* UPDATE jobs SET status = 'processing', visibility_timeout = <now + 5 s>
\*   WHERE id = <id>
UpdateJob(id) == Stmt("UPDATE", "JOBS", "*", id)

\* DELETE FROM locks
DeleteLocks == Stmt("DELETE", "LOCKS", "*", 0)

\* REPLACE INTO locks VALUES ('x', 't2', <now + 300 s>, <now>)
ReplaceLock == Stmt("REPLACE", "LOCKS", "*", 0)

\* INSERT OR IGNORE INTO notes VALUES (1)
InsertNote == Stmt("INSERT", "NOTES", "*", 0)

\* CREATE TABLE IF NOT EXISTS notes (id INTEGER PRIMARY KEY)
CreateNotes == Stmt("CREATE", "NOTES", "*", 0)

\* DROP TABLE jobs
DropJobs == Stmt("DROP", "JOBS", "*", 0)

\* DROP TABLE IF EXISTS notes
DropNotes == Stmt("DROP", "NOTES", "*", 0)

\* The statements that touch the jobs table as the queue claims need it.
QueueTexts == {<<UpdateJob(i)>> : i \in 1..MaxJobs} \cup {<<DropJobs>>}

\* The query texts a caller hands to the SQL sandbox: one statement, or two
\* separated by a semicolon.
SqlTexts ==
    LET S == {SelectLocks, SelectJobsCreatedAt, SelectNotes, UpdateJob(1),
              DeleteLocks, ReplaceLock, InsertNote, CreateNotes, DropJobs, DropNotes}
    IN  {<<a>> : a \in S} \cup {<<SelectLocks, b>> : b \in S}

\* The keywords that occur in the text of a statement: created_at holds
\* CREATE.
Words(st) == {st.verb} \cup (IF st.cols = "CREATED_AT" THEN {"CREATE"} ELSE {})

\* query.trim().toUpperCase().startsWith(word)
queryStartsWith(q, word) == q[1].verb = word

\* normalizedQuery.includes(word)
queryIncludes(q, word) == \E i \in DOMAIN q : word \in Words(q[i]) \/ word = q[i].table

\* No user table of the shard.
NoNotes == [exists |-> FALSE, rows |-> {}]

\* The user table exists whenever a statement of the text reads or fills it,
\* so that SQLite raises no error while the text runs.
Runs(d, q) ==
    \A i \in DOMAIN q :
        (q[i].table = "NOTES" /\ q[i].verb \in {"SELECT", "INSERT"}) => d.notes.exists

\* What SQLite does with one statement.
ExecStmt(d, st, now) ==
    CASE st.verb = "UPDATE" /\ st.table = "JOBS" ->
            [d EXCEPT !.jobs =
                [i \in DOMAIN d.jobs |->
                    IF d.jobs[i].id = st.id
                    THEN [d.jobs[i] EXCEPT !.status = "processing",
                                           !.visibility_timeout = Iso(now + 5)]
                    ELSE d.jobs[i]]]
      [] st.verb = "DELETE" /\ st.table = "LOCKS" ->
            [d EXCEPT !.locks = [n \in DOMAIN d.locks |-> NoLock]]
      [] st.verb = "REPLACE" /\ st.table = "LOCKS" ->
            [d EXCEPT !.locks["x"] =
                [present |-> TRUE, token |-> "t2", expires_at |-> now + 300]]
      [] st.verb = "INSERT" /\ st.table = "NOTES" ->
            [d EXCEPT !.notes.rows = @ \cup {1}]
      [] st.verb = "CREATE" /\ st.table = "NOTES" -> [d EXCEPT !.notes.exists = TRUE]
      [] st.verb = "DROP" /\ st.table = "NOTES" -> [d EXCEPT !.notes = NoNotes]
      [] st.verb = "DROP" /\ st.table = "JOBS" -> [d EXCEPT !.jobs = <<>>]
      [] OTHER -> d

\* this.sql.exec(query): SqlStorage.exec runs every statement of a text that
\* holds several, separated by semicolons, one after the other.
Exec(d, q, now) ==
    IF Len(q) = 1 THEN ExecStmt(d, q[1], now)
    ELSE ExecStmt(ExecStmt(d, q[1], now), q[2], now)

\* cursor.toArray(): the rows of the last statement of the text.
CursorRows(d, q) ==
    LET st == q[Len(q)] IN
    CASE st.verb = "SELECT" /\ st.table = "LOCKS" ->
            {[table |-> "LOCKS", name |-> n, value |-> d.locks[n].token] :
                n \in {m \in DOMAIN d.locks : d.locks[m].present}}
      [] st.verb = "SELECT" /\ st.table = "JOBS" ->
            {[table |-> "JOBS", name |-> "created_at", value |-> j.created_at] :
                j \in Rows(d.jobs)}
      [] st.verb = "SELECT" /\ st.table = "NOTES" ->
            {[table |-> "NOTES", name |-> "id", value |-> r] : r \in d.notes.rows}
      [] OTHER -> {}

\* cursor.rowsWritten of the text.
RowsWritten(d, q) ==
    LET st == q[Len(q)] IN
    CASE st.verb = "UPDATE" -> Cardinality({j \in Rows(d.jobs) : j.id = st.id})
      [] st.verb = "DELETE" ->
            Cardinality({n \in DOMAIN d.locks : d.locks[n].present})
      [] st.verb \in {"REPLACE", "INSERT"} -> 1
      [] OTHER -> 0

\* StorageDO.sqlQuery: a text that does not start with SELECT, or that holds
\* a dangerous keyword, throws; any other text is executed.
sqlQuery(d, q, now) ==
    IF ~queryStartsWith(q, "SELECT") THEN [db |-> d, threw |-> TRUE, rows |-> {}]
    ELSE IF \E keyword \in Dangerous : queryIncludes(q, keyword)
      THEN [db |-> d, threw |-> TRUE, rows |-> {}]
    ELSE [db |-> Exec(d, q, now), threw |-> FALSE, rows |-> CursorRows(Exec(d, q, now), q)]

\* StorageDO.sqlExecute: a text with DROP or ALTER that names a system table
\* throws; any other text is executed on the shard's database. (The texts
\* hold no PRAGMA.)
sqlExecute(d, q, now) ==
    IF \E table \in SystemTables :
           (queryIncludes(q, "DROP") \/ queryIncludes(q, "ALTER")) /\ queryIncludes(q, table)
      THEN [db |-> d, threw |-> TRUE, rowsAffected |-> 0]
    ELSE [db |-> Exec(d, q, now), threw |-> FALSE, rowsAffected |-> RowsWritten(d, q)]

\* The keys of the kv table of one StorageDO.
KvKeys == {"k", "j"}

\* The ttl a caller passes to set.
KvTtls == {UndefTtl, NumTtl(0), NumTtl(5), NanTtl}

\* The limit a caller passes to list.
KvLimits == {0, 1}

\* ----------------------------------------------------------------- memory

\* The keys of the memories table of one StorageDO.
MemIds == {"a", "b", "c"}

\* The embedding vectors of the stored texts and of the queries; <<1>> has
\* another dimension than the others.
Embeddings == {<<1, 0>>, <<3, 4>>, <<4, 3>>, <<1>>}

QueryEmbeddings == {<<1, 0>>, <<0, 0>>}

\* An option that is not given, and one that is.
NoOption == [given |-> FALSE, n |-> 0]

Given(n) == [given |-> TRUE, n |-> n]

\* options?.x ?? default
Coalesce(option, default) == IF option.given THEN option.n ELSE default

\* The limits and the thresholds a caller passes to search.
MemLimits == {NoOption, Given(1), Given(2), Given(0 - 1)}

MemThresholds == {NoOption, Given(0), Given(80)}

\* No row of the memories table.
NoMemory ==
    [present |-> FALSE, content |-> Absent, embedding |-> SqlNull, expires_at |-> SqlNull]

\* An item of a store call.
MemItem(id, embedding) == [id |-> id, text |-> "text", embedding |-> embedding]

\* The item lists of a store call: one item, or two.
MemBatches ==
    {<<MemItem(id, e)>> : id \in MemIds, e \in Embeddings}
    \cup {<<MemItem("a", <<3, 4>>), MemItem("b", e)>> : e \in Embeddings}
    \cup {<<MemItem("c", <<1, 0>>), MemItem("c", <<4, 3>>)>>}

\* The id lists of a delete call.
MemIdLists ==
    {<<>>} \cup {<<i>> : i \in MemIds} \cup {<<i, j>> : i, j \in MemIds}

\* cleanupExpired('memories')
cleanupExpiredMemories(memories, now) ==
    [k \in DOMAIN memories |->
        IF /\ memories[k].present /\ memories[k].expires_at # SqlNull
           /\ memories[k].expires_at[1] < now
        THEN NoMemory ELSE memories[k]]

\* memoryStore from item i on: INSERT ... ON CONFLICT(key) DO UPDATE
RECURSIVE StoreItems(_, _, _)
StoreItems(memories, items, i) ==
    IF i > Len(items) THEN memories
    ELSE StoreItems(
           [memories EXCEPT ![items[i].id] =
               [present |-> TRUE, content |-> items[i].text,
                embedding |-> JsonText(items[i].embedding),
                expires_at |-> IF @.present THEN @.expires_at ELSE SqlNull]],
           items, i + 1)

\* memoryStore
memoryStore(memories, items) ==
    [memories |-> StoreItems(memories, items, 1),
     res |-> [stored |-> Len(items), items |-> [i \in DOMAIN items |-> items[i].id]]]

\* The sum of f[1] .. f[n].
RECURSIVE SumTo(_, _)
SumTo(f, n) == IF n = 0 THEN 0 ELSE SumTo(f, n - 1) + f[n]

\* Math.sqrt, for the squares the norms of the embeddings are.
Sqrt(n) == CHOOSE r \in 0..n : r * r = n

\* cosineSimilarity; similarities and thresholds are counted in hundredths.
cosineSimilarity(a, b) ==
    IF Len(a) # Len(b) THEN 0
    ELSE LET dotProduct == SumTo([i \in DOMAIN a |-> a[i] * b[i]], Len(a))
             normA == SumTo([i \in DOMAIN a |-> a[i] * a[i]], Len(a))
             normB == SumTo([i \in DOMAIN a |-> b[i] * b[i]], Len(a))
             magnitude == Sqrt(normA) * Sqrt(normB) IN
         IF magnitude = 0 THEN 0 ELSE (dotProduct * 100) \div magnitude

\* The loop of memorySearch over the rows from row i on: a row below the
\* threshold is skipped, the others are scored.
RECURSIVE Scored(_, _, _, _, _)
Scored(memories, rows, queryEmbedding, threshold, i) ==
    IF i > Len(rows) THEN <<>>
    ELSE LET row == memories[rows[i]]
             similarity == cosineSimilarity(queryEmbedding, JsonParse(row.embedding)) IN
         IF similarity < threshold
         THEN Scored(memories, rows, queryEmbedding, threshold, i + 1)
         ELSE <<[id |-> rows[i], text |-> row.content, similarity |-> similarity]>>
              \o Scored(memories, rows, queryEmbedding, threshold, i + 1)

\* scored.sort((a, b) => b.similarity - a.similarity): a stable sort, here by
\* insertion of the last element into the sorted rest.
RECURSIVE SortBySimilarity(_)
SortBySimilarity(scored) ==
    IF scored = <<>> THEN <<>>
    ELSE LET rest == SortBySimilarity(SubSeq(scored, 1, Len(scored) - 1))
             x == scored[Len(scored)]
             k == Cardinality({i \in DOMAIN rest : rest[i].similarity >= x.similarity}) IN
         SubSeq(rest, 1, k) \o <<x>> \o SubSeq(rest, k + 1, Len(rest))

\* Array.prototype.slice(0, end): a negative end counts from the end.
Slice(seq, end) ==
    IF end >= 0 THEN SubSeq(seq, 1, Min(end, Len(seq)))
    ELSE SubSeq(seq, 1, Max(Len(seq) + end, 0))

\* The keys of the rows of SELECT ... FROM memories WHERE embedding IS NOT NULL
EmbeddedRows(memories) ==
    {k \in DOMAIN memories : memories[k].present /\ memories[k].embedding # SqlNull}

\* memorySearch; rows is the order in which the SELECT returns the rows.
memorySearch(memories, queryEmbedding, limit, threshold, rows, now) ==
    LET swept == cleanupExpiredMemories(memories, now) IN
    [memories |-> swept,
     results |-> Slice(SortBySimilarity(
                         Scored(swept, rows, queryEmbedding, Coalesce(threshold, 50), 1)),
                       Min(Coalesce(limit, 10), 100))]

\* The keys of the rows of SELECT key FROM memories WHERE key IN (ids)
ExistingRows(memories, ids) ==
    {k \in DOMAIN memories : memories[k].present /\ \E i \in DOMAIN ids : ids[i] = k}

\* Faulty variant: every requested id is reported as deleted.
memoryDeleteRequested(memories, ids, existingIds) ==
    [memories |-> [k \in DOMAIN memories |->
                      IF \E i \in DOMAIN existingIds : existingIds[i] = k
                      THEN NoMemory ELSE memories[k]],
     res |-> [deleted |-> Len(ids), ids |-> ids]]

\* memoryDelete; existingIds is the order in which the SELECT returns the
\* keys, and rowsWritten of the DELETE is the number of rows it removed.
memoryDelete(memories, ids, existingIds) ==
    IF Len(ids) = 0 \/ Len(existingIds) = 0
    THEN [memories |-> memories, res |-> [deleted |-> 0, ids |-> <<>>]]
    ELSE LET gone == {k \in DOMAIN memories :
                        memories[k].present
                          /\ \E i \in DOMAIN existingIds : existingIds[i] = k} IN
         [memories |-> [k \in DOMAIN memories |->
                           IF k \in gone THEN NoMemory ELSE memories[k]],
          res |-> [deleted |-> Cardinality(gone), ids |-> existingIds]]

\* The record of a call of a memory method.
MemCall(op, args, res) == [op |-> op, args |-> args, res |-> res]

\* -------------------------------------------------------------- safety scan

\* How many content writes one behaviour holds.
MaxScanWrites == 2

\* The key of the kv sets and the items of the memory stores that are scanned.
ScanKeys == {"k"}

ScanBatches ==
    {<<MemItem("a", <<1, 0>>)>>, <<MemItem("a", <<3, 4>>), MemItem("b", <<1, 0>>)>>}

\* The ids of the scanned content.
ScanIds == {"k", "a", "b"}

\* A string of which head holds the first 200 characters and tail the rest.
Chars(head, tail) == [head |-> head, tail |-> tail]

\* String.prototype.slice(0, 200)
Slice200(str) == Chars(str.head, "")

\* A confidence is written in hundredths.
ScanVerdict(safe, flags, confidence, reason) ==
    [safe |-> safe, flags |-> flags, confidence |-> confidence, reason |-> reason]

DEFAULT_VERDICT == ScanVerdict(TRUE, <<>>, 0, Chars("scan_unavailable", ""))

\* What JSON.parse makes of the text of the classifier: typeof of every
\* field (flags: "strings" for an array of strings, "array" for another
\* array), and the value of a field of the expected type.
MalwareObject ==
    [safeType |-> "boolean", safe |-> FALSE,
     flagsType |-> "strings", flags |-> <<"malware">>,
     confidenceType |-> "number", confidence |-> 90,
     reasonType |-> "string", reason |-> Chars("link to malware", "")]

ParsedObjects ==
    {MalwareObject,
     [MalwareObject EXCEPT !.safe = TRUE, !.flags = <<>>, !.confidence = 150,
                           !.reason = Chars("nothing found", " and more")],
     [MalwareObject EXCEPT !.confidence = 0 - 20],
     [MalwareObject EXCEPT !.safeType = "string", !.safe = TRUE],
     [MalwareObject EXCEPT !.flagsType = "array", !.flags = <<>>]}

\* The response text of the classifier: whether /\{[\s\S]*\}/ matches it,
\* whether JSON.parse takes the match, and what it returns.
RawText(match, parses, parsed) == [match |-> match, parses |-> parses, parsed |-> parsed]

RawTexts ==
    {RawText(FALSE, FALSE, MalwareObject), RawText(TRUE, FALSE, MalwareObject)}
    \cup {RawText(TRUE, TRUE, o) : o \in ParsedObjects}

\* How ai.run ends: it throws, or returns a response with no text, or with
\* a text.
AiOutcome(kind, raw) == [kind |-> kind, raw |-> raw]

AiOutcomes ==
    {AiOutcome("throws", RawText(FALSE, FALSE, MalwareObject)),
     AiOutcome("empty", RawText(FALSE, FALSE, MalwareObject))}
    \cup {AiOutcome("text", raw) : raw \in RawTexts}

\* parseVerdict: null for a text that holds no object of the expected
\* shape; the confidence is clamped to [0, 1] and the reason cut.
parseVerdict(raw) ==
    LET obj == raw.parsed IN
    IF \/ ~raw.match \/ ~raw.parses
       \/ obj.safeType # "boolean" \/ obj.flagsType # "strings"
       \/ obj.confidenceType # "number" \/ obj.reasonType # "string"
    THEN [null |-> TRUE, verdict |-> DEFAULT_VERDICT]
    ELSE [null |-> FALSE,
          verdict |-> ScanVerdict(obj.safe, obj.flags, Max(0, Min(100, obj.confidence)),
                                  Slice200(obj.reason))]

\* Faulty variant: every failure yields the default verdict as it stands.
scanContentDefault(outcome) ==
    IF outcome.kind = "text" /\ ~parseVerdict(outcome.raw).null
    THEN parseVerdict(outcome.raw).verdict
    ELSE DEFAULT_VERDICT

\* scanContent from the return of ai.run on: the verdict of the classifier,
\* or the default verdict with the reason of the failure.
scanContent(outcome) ==
    IF outcome.kind = "throws" THEN [DEFAULT_VERDICT EXCEPT !.reason = Chars("scan_error", "")]
    ELSE IF outcome.kind = "empty"
    THEN [DEFAULT_VERDICT EXCEPT !.reason = Chars("empty_response", "")]
    ELSE IF parseVerdict(outcome.raw).null
    THEN [DEFAULT_VERDICT EXCEPT !.reason = Chars("parse_error", "")]
    ELSE parseVerdict(outcome.raw).verdict

\* StorageDO.scanStore: INSERT ... ON CONFLICT(id) DO UPDATE of the row of
\* the id; flags holds JSON.stringify(verdict.flags).
scanStore(content_scans, id, contentType, verdict, now) ==
    {r \in content_scans : r.id # id}
    \cup {[id |-> id, content_type |-> contentType,
           safe |-> IF verdict.safe THEN 1 ELSE 0, flags |-> [json |-> verdict.flags],
           confidence |-> verdict.confidence, reason |-> verdict.reason,
           scanned_at |-> Iso(now)]}

\* The async function a handler hands to waitUntil: write n scans the
\* content of ids[i], ids[i + 1], ... in turn.
ScanTask(n, contentType, ids) == [n |-> n, contentType |-> contentType, ids |-> ids, i |-> 1]

\* Faulty variant: the handler awaits the scan, so that none is under way
\* when it responds.
waitUntilAwaited(tasks, task) == tasks

\* c.executionCtx.waitUntil(promise): the task runs on after the response.
waitUntil(tasks, task) == tasks \cup {task}

\* The kv, locks and jobs tables after initializeSchema; seq counts the jobs
\* pushed so far.
EmptyDb ==
    [kv |-> [k \in KvKeys |-> NoRow], pastes |-> [i \in PasteIds |-> NoPaste],
     locks |-> [n \in LockNames |-> NoLock], jobs |-> <<>>, seq |-> 0,
     notes |-> NoNotes, memories |-> [k \in MemIds |-> NoMemory],
     content_scans |-> {}]

\* No StorageDO method was called yet.
NoCall == [op |-> "none"]

\* What is known of the latest successful lock of a name: its token, when
\* it expired as acquired (lockExpiry) and as last extended (expiry), whether
\* its token was supplied to unlock, and whether its token was supplied to
\* unlock or extend before its expiry.
NoLockHistory ==
    [acquired |-> FALSE, token |-> Absent, lockExpiry |-> 0, expiry |-> 0,
     unlocked |-> FALSE, supplied |-> FALSE]

\* The latest set or delete of a key that returned: the value of the set, the
\* ttl it gave, when it was made, and the time up to which its ttl keeps the
\* key, if it gave one.
NoKvHistory ==
    [op |-> "none", value |-> Absent, deadline |-> SqlNull, ttl |-> UndefTtl, at |-> 0]

\* The latest create that returned an id, or the latest delete of the id:
\* the content of the create and the time up to which its ttl keeps the
\* paste, if it gave one.
NoPasteHistory == [op |-> "none", content |-> Absent, deadline |-> SqlNull]

\* ------------------------------------------------------------ model cache

\* const CACHE_TTL_MS
CACHE_TTL_MS == 3600000

\* const RETRY_BACKOFF_MS
RETRY_BACKOFF_MS == 30000

\* Date.now(), in milliseconds
DateNow(now) == now * 1000

\* null, for a time or a promise.
Never == 0 - 1

ModelIds == {"m1", "m2"}

\* The tasks of the isolate that call lookupModel.
Callers == {"a", "b", "c"}

\* No ModelPricing.
NoPricing == [promptPer1k |-> 0 - 1, completionPer1k |-> 0 - 1]

\* parseFloat(price) * 1000 for the price strings of the catalogs: a number,
\* NaN for text that is no number, and a negative number.
Per1k(price) ==
    CASE price = "0.003" -> [finite |-> TRUE, n |-> 3]
      [] price = "0.005" -> [finite |-> TRUE, n |-> 5]
      [] price = "-0.001" -> [finite |-> TRUE, n |-> 0 - 1]
      [] OTHER -> [finite |-> FALSE, n |-> 0]

\* A model of the catalog; pricing "undefined" is a model without a pricing
\* object.
CatalogModel(id, pricing) == [id |-> id, pricing |-> pricing]

\* What the model list of the provider can hold.
Catalogs ==
    {<<>>,
     <<CatalogModel("m1", "0.003"), CatalogModel("m2", "free")>>,
     <<CatalogModel("m2", "0.005"), CatalogModel("m1", "-0.001")>>,
     <<CatalogModel("m2", "0.005"), CatalogModel("m1", "undefined")>>}

\* How client.getModels(controller.signal) ends: it returns the model list,
\* throws on a transport error, or throws when the timeout aborts it.
FetchOutcomes ==
    {[kind |-> "error", data |-> <<>>], [kind |-> "timeout", data |-> <<>>]}
    \cup {[kind |-> "ok", data |-> d] : d \in Catalogs}

\* modelRegistry after clear().
EmptyRegistry == [m \in ModelIds |-> NoPricing]

\* modelRegistry.size
Size(registry) == Cardinality({m \in ModelIds : registry[m] # NoPricing})

\* The module-level state: an empty registry, no fetch yet, no refresh under
\* way. inflightRefresh holds the number of the promise, or Never.
EmptyCache ==
    [modelRegistry |-> EmptyRegistry, fetchedAt |-> Never, lastFailedAt |-> Never,
     inflightRefresh |-> Never]

\* The refreshes of the model cache: how many were started, how each ended,
\* and how often time has passed.
NoRefreshHistory ==
    [issued |-> 0, outcome |-> [p \in 1..MaxRefreshes |-> "pending"], waits |-> 0]

\* How many content writes were answered, and for every content id the
\* number of its latest write and of the write whose verdict is stored.
NoScanHistory ==
    [writes |-> 0, latest |-> [id \in ScanIds |-> 0], stored |-> [id \in ScanIds |-> 0]]

\* popped holds the ids that pop has returned; written holds, for every
\* shard and key, the value of the latest set that returned, or Absent when
\* no set returned or a delete returned after it.
NoGhost ==
    [lock |-> [n \in LockNames |-> NoLockHistory], popped |-> {},
     written |-> [p \in Payers |-> [k \in Keys |-> Absent]],
     kv |-> [k \in KvKeys |-> NoKvHistory],
     paste |-> [i \in PasteIds |-> NoPasteHistory],
     refresh |-> NoRefreshHistory, scan |-> NoScanHistory]

\* The record of a call of a lock method.
LockCall(op, name, token, ttl, res) ==
    [op |-> op, name |-> name, token |-> token, ttl |-> ttl, at |-> clock,
     pre |-> db.locks[name], hist |-> ghost.lock[name], res |-> res]

\* lock(name, {ttl})
SyncLock ==
    \E name \in LockNames, ttl \in LockTtls, token \in Tokens :
        LET r == syncLock(db.locks, name, ttl, clock, token) IN
        /\ db' = [db EXCEPT !.locks = r.locks]
        /\ last' = LockCall("lock", name, Absent, ttl, r.res)
        /\ ghost' = IF r.res.ok
                     THEN [ghost EXCEPT !.lock[name] =
                             [NoLockHistory EXCEPT !.acquired = TRUE, !.token = token,
                                                   !.lockExpiry = clock + lockTtl(ttl),
                                                   !.expiry = clock + lockTtl(ttl)]]
                     ELSE ghost
        /\ UNCHANGED <<cacheVars, env, req, shards, clock>>

\* unlock(name, token)
SyncUnlock ==
    \E name \in LockNames, token \in Tokens :
        LET r == syncUnlock(db.locks, name, token)
            h == ghost.lock[name] IN
        /\ db' = [db EXCEPT !.locks = r.locks]
        /\ last' = LockCall("unlock", name, token, UndefTtl, r.res)
        /\ ghost' = IF h.acquired /\ h.token = token
                     THEN [ghost EXCEPT !.lock[name].unlocked = TRUE,
                                        !.lock[name].supplied =
                                            h.supplied \/ clock < h.expiry]
                     ELSE ghost
        /\ UNCHANGED <<cacheVars, env, req, shards, clock>>

\* extend(name, token, {ttl})
SyncExtend ==
    \E name \in LockNames, token \in Tokens, ttl \in LockTtls :
        LET r == syncExtend(db.locks, name, token, ttl, clock)
            h == ghost.lock[name] IN
        /\ db' = [db EXCEPT !.locks = r.locks]
        /\ last' = LockCall("extend", name, token, ttl, r.res)
        /\ ghost' = IF h.acquired /\ h.token = token
                     THEN [ghost EXCEPT
                             !.lock[name].supplied = h.supplied \/ clock < h.expiry,
                             !.lock[name].expiry =
                                 IF r.res.ok THEN clock + lockTtl(ttl) ELSE h.expiry]
                     ELSE ghost
        /\ UNCHANGED <<cacheVars, env, req, shards, clock>>

\* status(name)
SyncStatus ==
    \E name \in LockNames :
        LET r == syncStatus(db.locks, name, clock) IN
        /\ db' = [db EXCEPT !.locks = r.locks]
        /\ last' = LockCall("status", name, Absent, UndefTtl, r.res)
        /\ UNCHANGED <<cacheVars, env, req, shards, clock, ghost>>

\* The record of a call of a queue method; revived holds the ids of the jobs
\* that the hygiene step of the call moved back to pending.
QueueCall(op, queue, count, res) ==
    [op |-> op, queue |-> queue, count |-> count, at |-> clock, res |-> res,
     revived |-> IF op \in {"pop", "peek", "status"}
                 THEN {db.jobs[i].id : i \in {k \in DOMAIN db.jobs :
                                                 Elapsed(db.jobs[k], queue, clock)}}
                 ELSE {}]

\* push(name, items, {priority})
QueuePush ==
    \E queue \in Queues, items \in Batches, priority \in Priorities :
        LET r == queuePush(db.jobs, queue, items, priority, clock, db.seq) IN
        /\ db.seq + Len(items) <= MaxJobs
        /\ db' = [db EXCEPT !.jobs = r.jobs, !.seq = @ + Len(items)]
        /\ last' = QueueCall("push", queue, 0, [pushed |-> r.pushed])
        /\ UNCHANGED <<cacheVars, env, req, shards, clock, ghost>>

\* pop(name, count)
QueuePop ==
    \E queue \in Queues, count \in Counts :
        LET t == cleanupVisibilityTimeouts(db.jobs, queue, clock) IN
        \E o \in OrderBy(PopRows(t, queue, clock)) :
            LET r == queuePop(t, queue, count, clock, Limit(o, safeCount(count))) IN
            /\ db' = [db EXCEPT !.jobs = r.jobs]
            /\ last' = QueueCall("pop", queue, count, [items |-> r.items, count |-> r.count])
            /\ ghost' = [ghost EXCEPT !.popped =
                            @ \cup {r.items[i].id : i \in DOMAIN r.items}]
            /\ UNCHANGED <<cacheVars, env, req, shards, clock>>

\* peek(name, count)
QueuePeek ==
    \E queue \in Queues, count \in Counts :
        LET t == cleanupVisibilityTimeouts(db.jobs, queue, clock) IN
        \E o \in OrderBy(PeekRows(t, queue)) :
            LET r == queuePeek(t, queue, count, Limit(o, safeCount(count))) IN
            /\ db' = [db EXCEPT !.jobs = r.jobs]
            /\ last' = QueueCall("peek", queue, count, [items |-> r.items, count |-> r.count])
            /\ UNCHANGED <<cacheVars, env, req, shards, clock, ghost>>

\* status(name)
QueueStatus ==
    \E queue \in Queues :
        LET r == queueStatus(cleanupVisibilityTimeouts(db.jobs, queue, clock), queue) IN
        /\ db' = [db EXCEPT !.jobs = r.jobs]
        /\ last' = QueueCall("status", queue, 0,
                              [pending |-> r.pending, processing |-> r.processing,
                               completed |-> r.completed, failed |-> r.failed])
        /\ UNCHANGED <<cacheVars, env, req, shards, clock, ghost>>

\* clear(name)
QueueClear ==
    \E queue \in Queues :
        LET r == queueClear(db.jobs, queue) IN
        /\ db' = [db EXCEPT !.jobs = r.jobs]
        /\ last' = QueueCall("clear", queue, 0, [cleared |-> r.cleared])
        /\ UNCHANGED <<cacheVars, env, req, shards, clock, ghost>>

\* The record of a call of the SQL sandbox.
SqlCall(op, q, res) == [op |-> op, query |-> q, at |-> clock, res |-> res]

\* query(query) of the SQL sandbox on the shard's database.
SqlQuery(texts) ==
    \E q \in texts :
        LET r == sqlQuery(db, q, clock) IN
        /\ Runs(db, q)
        /\ db' = r.db
        /\ last' = SqlCall("query", q, [threw |-> r.threw, rows |-> r.rows])
        /\ UNCHANGED <<cacheVars, env, req, shards, clock, ghost>>

\* execute(query) of the SQL sandbox on the shard's database.
SqlExecute(texts) ==
    \E q \in texts :
        LET r == sqlExecute(db, q, clock) IN
        /\ Runs(db, q)
        /\ db' = r.db
        /\ last' = SqlCall("execute", q, [threw |-> r.threw, rowsAffected |-> r.rowsAffected])
        /\ UNCHANGED <<cacheVars, env, req, shards, clock, ghost>>

\* isCacheStale
isCacheStale(c, now) ==
    IF c.fetchedAt = Never \/ Size(c.modelRegistry) = 0
    THEN ~(c.lastFailedAt # Never /\ DateNow(now) - c.lastFailedAt < RETRY_BACKOFF_MS)
    ELSE DateNow(now) - c.fetchedAt > CACHE_TTL_MS

\* The loop of doRefresh over modelsResponse.data from model i on: a model
\* without a pricing object throws, a model whose price is not finite or is
\* negative is skipped.
RECURSIVE LoadModels(_, _, _)
LoadModels(registry, data, i) ==
    IF i > Len(data) THEN [registry |-> registry, threw |-> FALSE]
    ELSE IF data[i].pricing = "undefined" THEN [registry |-> registry, threw |-> TRUE]
    ELSE LET per1k == Per1k(data[i].pricing) IN
         IF ~per1k.finite \/ per1k.n < 0 THEN LoadModels(registry, data, i + 1)
         ELSE LoadModels([registry EXCEPT ![data[i].id] =
                            [promptPer1k |-> per1k.n, completionPer1k |-> per1k.n]],
                         data, i + 1)

\* doRefresh from the return of client.getModels on: the registry is cleared
\* and loaded, and the catch block records the time of a failure.
doRefresh(c, outcome, now) ==
    IF outcome.kind # "ok" THEN [c EXCEPT !.lastFailedAt = DateNow(now)]
    ELSE LET l == LoadModels(EmptyRegistry, outcome.data, 1) IN
         IF l.threw
         THEN [c EXCEPT !.modelRegistry = l.registry, !.lastFailedAt = DateNow(now)]
         ELSE [c EXCEPT !.modelRegistry = l.registry, !.fetchedAt = DateNow(now),
                        !.lastFailedAt = Never]

\* Faulty variant: an unknown model is answered like an empty cache.
lookupAnswerPermissive(c, modelId) == [valid |-> TRUE, pricing |-> c.modelRegistry[modelId]]

\* lookupModel after the refresh: the answer from the registry.
lookupAnswer(c, modelId) ==
    IF Size(c.modelRegistry) = 0 THEN [valid |-> TRUE, pricing |-> NoPricing]
    ELSE IF c.modelRegistry[modelId] = NoPricing THEN [valid |-> FALSE, pricing |-> NoPricing]
    ELSE [valid |-> TRUE, pricing |-> c.modelRegistry[modelId]]

\* A task that is not in lookupModel. promise is the refresh the task awaits,
\* owner whether the task started it.
IdleLookup == [pc |-> "idle", modelId |-> "m1", promise |-> Never, owner |-> FALSE]

\* The record of a lookupModel call that returned; refresh is how the refresh
\* ended that the call awaited ("none" when it awaited none).
LookupCall(modelId, refresh, res) ==
    [op |-> "lookup", modelId |-> modelId, refresh |-> refresh, res |-> res]

\* Faulty variant: refreshCache starts a refresh also while one is under way.
JoinsNever(c) == FALSE

\* refreshCache: if (inflightRefresh) return inflightRefresh
Joins(c) == c.inflightRefresh # Never

\* lookupModel(modelId) up to its first await: a fresh cache is answered at
\* once; a stale one makes the task await the refresh under way, or start one
\* (doRefresh up to client.getModels) and await that.
LookupStart(c) ==
    /\ lookups[c].pc = "idle"
    /\ \E modelId \in ModelIds :
          IF ~isCacheStale(cache, clock)
          THEN /\ last' = LookupCall(modelId, "none", lookupAnswer(cache, modelId))
               /\ UNCHANGED <<cache, lookups, fetches, ghost>>
          ELSE IF Joins(cache)
          THEN /\ lookups' = [lookups EXCEPT ![c] =
                                 [pc |-> "await", modelId |-> modelId,
                                  promise |-> cache.inflightRefresh, owner |-> FALSE]]
               /\ last' = NoCall
               /\ UNCHANGED <<cache, fetches, ghost>>
          ELSE LET p == ghost.refresh.issued + 1 IN
               /\ p <= MaxRefreshes
               /\ cache' = [cache EXCEPT !.inflightRefresh = p]
               /\ fetches' = fetches \cup {p}
               /\ lookups' = [lookups EXCEPT ![c] =
                                 [pc |-> "await", modelId |-> modelId,
                                  promise |-> p, owner |-> TRUE]]
               /\ ghost' = [ghost EXCEPT !.refresh.issued = p]
               /\ last' = NoCall
    /\ UNCHANGED <<scans, env, req, shards, clock, db>>

\* No task has a continuation that is ready to run: the event loop runs the
\* continuations of a settled promise before it takes the next event.
NoMicrotask ==
    \A c \in Callers :
        lookups[c].pc = "await" => ghost.refresh.outcome[lookups[c].promise] = "pending"

\* client.getModels returns or throws and doRefresh runs to its end: the
\* promise of the refresh is settled.
FetchReturn ==
    \E p \in fetches, outcome \in FetchOutcomes :
        /\ NoMicrotask
        /\ cache' = doRefresh(cache, outcome, clock)
        /\ fetches' = fetches \ {p}
        /\ ghost' = [ghost EXCEPT !.refresh.outcome[p] =
                        IF outcome.kind = "ok"
                             /\ ~LoadModels(EmptyRegistry, outcome.data, 1).threw
                        THEN "ok" ELSE "failed"]
        /\ last' = [op |-> "refresh", promise |-> p, kind |-> outcome.kind,
                     failed |-> ghost'.refresh.outcome[p] = "failed"]
        /\ UNCHANGED <<scans, env, req, shards, clock, db, lookups>>

\* Faulty variant: refreshCache leaves the marker of the refresh in place.
refreshCacheNoFinally(c) == c

\* The finally block of refreshCache: inflightRefresh = null
refreshCacheFinally(c) == [c EXCEPT !.inflightRefresh = Never]

\* refreshCache of the task that started the refresh, after its await, however
\* the refresh ended.
RefreshFinally(c) ==
    /\ lookups[c].pc = "await" /\ lookups[c].owner
    /\ ghost.refresh.outcome[lookups[c].promise] # "pending"
    /\ cache' = refreshCacheFinally(cache)
    /\ lookups' = [lookups EXCEPT ![c].owner = FALSE]
    /\ last' = NoCall
    /\ UNCHANGED <<scans, env, req, shards, clock, db, ghost, fetches>>

\* lookupModel after its await: the answer from the registry.
LookupReturn(c) ==
    /\ lookups[c].pc = "await" /\ ~lookups[c].owner
    /\ ghost.refresh.outcome[lookups[c].promise] # "pending"
    /\ last' = LookupCall(lookups[c].modelId, ghost.refresh.outcome[lookups[c].promise],
                          lookupAnswer(cache, lookups[c].modelId))
    /\ lookups' = [lookups EXCEPT ![c] = IdleLookup]
    /\ UNCHANGED <<scans, env, req, shards, clock, db, ghost, cache, fetches>>

\* By how many seconds the clock advances between lookups.
CacheSteps == {30, 3601}

\* Time passes.
Wait ==
    /\ NoMicrotask
    /\ ghost.refresh.waits < MaxWaits
    /\ \E d \in CacheSteps : clock' = clock + d
    /\ ghost' = [ghost EXCEPT !.refresh.waits = @ + 1]
    /\ last' = NoCall
    /\ UNCHANGED <<scans, env, req, shards, db, cache, lookups, fetches>>

\* storageDO.memoryStore(items)
MemoryStore ==
    \E items \in MemBatches :
        LET r == memoryStore(db.memories, items) IN
        /\ db' = [db EXCEPT !.memories = r.memories]
        /\ last' = MemCall("memoryStore", [items |-> items], r.res)
        /\ UNCHANGED <<cacheVars, env, req, shards, clock, ghost>>

\* storageDO.memorySearch(queryEmbedding, { limit, threshold }); a SELECT
\* without ORDER BY returns the rows in any order.
MemorySearch ==
    \E queryEmbedding \in QueryEmbeddings, limit \in MemLimits,
       threshold \in MemThresholds, rows \in Perms(EmbeddedRows(db.memories)) :
        LET r == memorySearch(db.memories, queryEmbedding, limit, threshold, rows, clock) IN
        /\ db' = [db EXCEPT !.memories = r.memories]
        /\ last' = MemCall("memorySearch",
                           [queryEmbedding |-> queryEmbedding, limit |-> limit,
                            threshold |-> threshold],
                           [results |-> r.results])
        /\ UNCHANGED <<cacheVars, env, req, shards, clock, ghost>>

\* storageDO.memoryDelete(ids)
MemoryDelete ==
    \E ids \in MemIdLists :
      \E existingIds \in Perms(ExistingRows(db.memories, ids)) :
        LET r == memoryDelete(db.memories, ids, existingIds) IN
        /\ db' = [db EXCEPT !.memories = r.memories]
        /\ last' = MemCall("memoryDelete", [ids |-> ids], r.res)
        /\ UNCHANGED <<cacheVars, env, req, shards, clock, ghost>>

\* The record of a call of a kv method.
KvCall(op, key, value, ttl, res) ==
    [op |-> op, key |-> key, value |-> value, ttl |-> ttl, at |-> clock, res |-> res]

\* set(key, value, {ttl})
KvSet ==
    \E key \in KvKeys, value \in Values, ttl \in KvTtls :
        LET r == kvSet(db.kv, key, value, ttl, clock) IN
        /\ db' = [db EXCEPT !.kv = r.kv]
        /\ last' = KvCall("set", key, value, ttl, [created |-> r.created, threw |-> r.threw])
        /\ ghost' = IF r.threw THEN ghost
                     ELSE [ghost EXCEPT !.kv[key] =
                             [op |-> "set", value |-> value,
                              deadline |-> IF ttl.kind = "number" /\ ttl.n # 0
                                           THEN Iso(clock + ttl.n) ELSE SqlNull,
                              ttl |-> ttl, at |-> clock]]
        /\ UNCHANGED <<cacheVars, env, req, shards, clock>>

\* get(key)
KvGet ==
    \E key \in KvKeys :
        LET r == kvGet(db.kv, key, clock) IN
        /\ db' = [db EXCEPT !.kv = r.kv]
        /\ last' = KvCall("get", key, Absent, UndefTtl, [value |-> r.value])
        /\ UNCHANGED <<cacheVars, env, req, shards, clock, ghost>>

\* list({limit})
KvList ==
    \E limit \in KvLimits :
        LET r == kvList(db.kv, limit, clock) IN
        /\ db' = [db EXCEPT !.kv = r.kv]
        /\ last' = KvCall("list", Absent, Absent, UndefTtl, [keys |-> r.keys])
        /\ UNCHANGED <<cacheVars, env, req, shards, clock, ghost>>

\* delete(key)
KvDelete ==
    \E key \in KvKeys :
        LET r == kvDelete(db.kv, key) IN
        /\ db' = [db EXCEPT !.kv = r.kv]
        /\ last' = KvCall("delete", key, Absent, UndefTtl, [deleted |-> r.deleted])
        /\ ghost' = [ghost EXCEPT !.kv[key] = [NoKvHistory EXCEPT !.op = "delete"]]
        /\ UNCHANGED <<cacheVars, env, req, shards, clock>>

\* The record of a call of a paste method.
PasteCall(op, id, content, ttl, res) ==
    [op |-> op, id |-> id, content |-> content, ttl |-> ttl, at |-> clock, res |-> res]

\* create(content, {ttl})
PasteCreate ==
    \E content \in Contents, ttl \in PasteTtls, id \in PasteIds :
        LET r == pasteCreate(db.pastes, content, ttl, clock, id) IN
        /\ db' = [db EXCEPT !.pastes = r.pastes]
        /\ last' = PasteCall("create", Absent, content, ttl, [id |-> r.id, threw |-> r.threw])
        /\ ghost' = IF r.threw THEN ghost
                     ELSE [ghost EXCEPT !.paste[id] =
                             [op |-> "create", content |-> content,
                              deadline |-> IF ttl.kind = "number" /\ ttl.n # 0
                                           THEN Iso(clock + ttl.n) ELSE SqlNull]]
        /\ UNCHANGED <<cacheVars, env, req, shards, clock>>

\* get(id): PasteGet.handle answers 404 when pasteGet returns null.
PasteGet ==
    \E id \in PasteIds :
        LET r == pasteGet(db.pastes, id, clock) IN
        /\ db' = [db EXCEPT !.pastes = r.pastes]
        /\ last' = PasteCall("get", id, Absent, UndefTtl,
                              [status |-> IF r.found THEN 200 ELSE 404,
                               content |-> r.content])
        /\ UNCHANGED <<cacheVars, env, req, shards, clock, ghost>>

\* delete(id)
PasteDelete ==
    \E id \in PasteIds :
        LET r == pasteDelete(db.pastes, id) IN
        /\ db' = [db EXCEPT !.pastes = r.pastes]
        /\ last' = PasteCall("delete", id, Absent, UndefTtl, [deleted |-> r.deleted])
        /\ ghost' = [ghost EXCEPT !.paste[id] = [NoPasteHistory EXCEPT !.op = "delete"]]
        /\ UNCHANGED <<cacheVars, env, req, shards, clock>>

\* Time passes after the call has returned.
Tick(limit) ==
    /\ \E d \in Steps : clock + d <= limit /\ clock' = clock + d
    /\ last' = NoCall
    /\ UNCHANGED <<cacheVars, env, req, shards, db, ghost>>

\* ----------------------------------------------------------------- actions

\* A request arrives and the middleware runs up to the settlement call.
Receive(r, Inputs) ==
    /\ req[r].pc = "idle"
    /\ \E in \in Inputs :
          req' = [req EXCEPT ![r] = MiddlewareStart([IdleReq EXCEPT !.in = in], env)]
    /\ UNCHANGED <<cacheVars, env, shards, doVars>>

\* verifier.settle returns or throws.
SettleReturn(r, Texts) ==
    /\ req[r].pc = "settling"
    /\ \E outcome \in Outcomes(Texts, networkToCAIP2(env.X402_NETWORK)) :
          req' = [req EXCEPT ![r] = MiddlewareSettled(req[r], outcome)]
    /\ UNCHANGED <<cacheVars, env, shards, doVars>>

\* The route's handler runs: a storage handler makes one call to the
\* Durable Object of the payer, which the runtime runs as one step.
Handle(r) ==
    /\ req[r].pc = "handler"
    /\ LET c == [req[r] EXCEPT !.handlerRan = TRUE]
           do == getStorageDO(c)
       IN  \E how \in {"ok", "bad_request", "error", "throw"} :
              IF how = "throw" \/ getTokenTypeThrows(c)
                THEN req' = [req EXCEPT ![r] = onError(c)] /\ UNCHANGED <<shards, ghost>>
              ELSE IF c.in.ep \notin StorageEndpoints
                THEN /\ req' = [req EXCEPT ![r] = PlainHandler(c, how)]
                     /\ UNCHANGED <<shards, ghost>>
              ELSE IF do = Absent
                THEN /\ req' = [req EXCEPT ![r] =
                                   errorResponse(c, "Storage not available", 500)]
                     /\ UNCHANGED <<shards, ghost>>
              ELSE /\ how = "ok"
                   /\ req' = [req EXCEPT ![r] =
                                 [StorageHandler(c, shards[do], clock).c
                                    EXCEPT !.shardUsed = do]]
                   /\ shards' = [shards EXCEPT ![do] = StorageHandler(c, shards[do], clock).kv]
                   /\ ghost' = [ghost EXCEPT !.written[do][c.in.key] =
                                   CASE c.in.ep = "kvSet" -> c.in.value
                                     [] c.in.ep = "kvDelete" -> Absent
                                     [] OTHER -> @]
    /\ UNCHANGED <<cacheVars, env, clock, db, last>>

\* The response is sent and the slot takes the next request.
Respond(r) ==
    /\ req[r].pc = "done"
    /\ req' = [req EXCEPT ![r] = IdleReq]
    /\ UNCHANGED <<cacheVars, env, shards, doVars>>

\* The record of a content write that a handler answered: n is the number
\* of the write when a scan was scheduled for it, else 0.
WriteCall(op, ids, n, status, body) ==
    [op |-> op, ids |-> ids, n |-> n, status |-> status, body |-> body]

\* The history of the scans after write n of the ids.
Written(history, ids, n) ==
    [history EXCEPT !.writes = n,
                    !.latest = [id \in ScanIds |->
                                  IF \E i \in DOMAIN ids : ids[i] = id THEN n ELSE @[id]]]

\* KvSet.handle with a StorageDO: 400 without a value; else kvSet (an error
\* it throws becomes a 500), the scan of the value handed to waitUntil, and
\* the response.
KvSetHandle ==
    \E key \in ScanKeys, value \in Values \cup {Absent}, ttl \in {UndefTtl, NanTtl} :
        LET r == kvSet(db.kv, key, value, ttl, clock)
            n == ghost.scan.writes + 1 IN
        /\ IF value = Absent
           THEN /\ last' = WriteCall("kvSet", <<key>>, 0, 400, [ok |-> FALSE])
                /\ UNCHANGED <<db, scans, ghost>>
           ELSE IF r.threw
           THEN /\ last' = WriteCall("kvSet", <<key>>, 0, 500, [ok |-> FALSE])
                /\ UNCHANGED <<db, scans, ghost>>
           ELSE /\ n <= MaxScanWrites
                /\ db' = [db EXCEPT !.kv = r.kv]
                /\ scans' = waitUntil(scans, ScanTask(n, "kv", <<key>>))
                /\ ghost' = [ghost EXCEPT !.scan = Written(@, <<key>>, n)]
                /\ last' = WriteCall("kvSet", <<key>>, n, 200,
                                     [ok |-> TRUE, key |-> key, created |-> r.created])
        /\ UNCHANGED <<cache, lookups, fetches, env, req, shards, clock>>

\* MemoryStore.handle with a StorageDO: 400 without items; 500 when the
\* embedding call throws; else memoryStore, the scan of the items handed to
\* waitUntil, and the response.
MemoryStoreHandle ==
    \E items \in ScanBatches \cup {<<>>}, embeds \in BOOLEAN :
        LET r == memoryStore(db.memories, items)
            ids == [i \in DOMAIN items |-> items[i].id]
            n == ghost.scan.writes + 1 IN
        /\ IF items = <<>>
           THEN /\ last' = WriteCall("memoryStore", ids, 0, 400, [ok |-> FALSE])
                /\ UNCHANGED <<db, scans, ghost>>
           ELSE IF ~embeds
           THEN /\ last' = WriteCall("memoryStore", ids, 0, 500, [ok |-> FALSE])
                /\ UNCHANGED <<db, scans, ghost>>
           ELSE /\ n <= MaxScanWrites
                /\ db' = [db EXCEPT !.memories = r.memories]
                /\ scans' = waitUntil(scans, ScanTask(n, "memory", ids))
                /\ ghost' = [ghost EXCEPT !.scan = Written(@, ids, n)]
                /\ last' = WriteCall("memoryStore", ids, n, 200,
                                     [ok |-> TRUE, stored |-> r.res.stored,
                                      items |-> r.res.items])
        /\ UNCHANGED <<cache, lookups, fetches, env, req, shards, clock>>

\* A scan under way goes on: ai.run ends, scanContent returns its verdict,
\* scanStore writes it, and the task turns to its next item or ends.
ScanReturn ==
    \E t \in scans, outcome \in AiOutcomes :
        LET id == t.ids[t.i]
            verdict == scanContent(outcome) IN
        /\ db' = [db EXCEPT !.content_scans = scanStore(@, id, t.contentType, verdict, clock)]
        /\ scans' = (scans \ {t})
                       \cup (IF t.i < Len(t.ids) THEN {[t EXCEPT !.i = @ + 1]} ELSE {})
        /\ ghost' = [ghost EXCEPT !.scan.stored[id] = t.n]
        /\ last' = [op |-> "scan", id |-> id, n |-> t.n, outcome |-> outcome,
                     verdict |-> verdict]
        /\ UNCHANGED <<cache, lookups, fetches, env, req, shards, clock>>

\* GET /x402.json: the manifest of a registry under the configuration of
\* the worker.
GenerateManifest ==
    \E registry \in Registries, stx \in {0, 1}, conversion \in Conversions :
        LET config == [baseUrl |-> "https://x402.example", payTo |-> env.X402_SERVER_ADDRESS,
                       network |-> env.X402_NETWORK] IN
        /\ last = NoCall
        /\ last' = [op |-> "manifest", registry |-> registry, pricing |-> TierPricing(stx),
                     conversion |-> conversion,
                     res |-> generateX402Manifest(config, registry, TierPricing(stx),
                                                  conversion, clock)]
        /\ UNCHANGED <<cacheVars, env, req, shards, clock, db, ghost>>

\* ---------------------------------------------------------- specifications

Envs == [X402_SERVER_ADDRESS : {"", "SP_SERVER"}, X402_NETWORK : Networks]

Init ==
    /\ cache = EmptyCache
    /\ lookups = [c \in Callers |-> IdleLookup]
    /\ fetches = {}
    /\ scans = {}
    /\ env \in Envs
    /\ req = [r \in Reqs |-> IdleReq]
    /\ shards = [p \in Payers |-> EmptyKv]
    /\ clock = 0
    /\ db = EmptyDb
    /\ last = NoCall
    /\ ghost = NoGhost

\* One request at a time through the whole payment state machine.
Next ==
    \/ Receive("r1", PaymentInputs)
    \/ SettleReturn("r1", SampleTexts)
    \/ Handle("r1")
    \/ Respond("r1")

Spec == Init /\ [][Next]_vars

\* Paid storage requests of the payers, in parallel.
InitShard == Init /\ ~Unconfigured(env)

NextShard ==
    \E r \in Reqs :
        \/ Receive(r, ShardInputs)
        \/ SettleReturn(r, {MkText({}, FALSE)})
        \/ Handle(r)
        \/ Respond(r)

SpecShard == InitShard /\ [][NextShard]_vars

\* classifyPaymentError(error, settleResult) is called with an error text and
\* the error reason of a settlement result, or without a result.
Classify ==
    /\ last = NoCall
    /\ \E error \in AllTexts, resultReason \in SampleTexts \cup {NoText} :
          last' = [op |-> "classify", error |-> error, resultReason |-> resultReason,
                   res |-> classifyPaymentError(error, resultReason)]
    /\ UNCHANGED <<cacheVars, env, req, shards, clock, db, ghost>>

InitClassify == Init /\ ~Unconfigured(env) /\ env.X402_NETWORK = "mainnet"

SpecClassify == InitClassify /\ [][Classify]_vars

\* One paid request of every route and token, with every payload.
NextRelay ==
    \/ Receive("r1", RelayInputs)
    \/ SettleReturn("r1", {MkText({}, FALSE)})
    \/ Handle("r1")
    \/ Respond("r1")

SpecRelay == Init /\ [][NextRelay]_vars

\* One paid request against every error text of the relay.
InitSettle == Init /\ ~Unconfigured(env) /\ env.X402_NETWORK = "mainnet"

NextSettle ==
    \/ Receive("r1", SettleInputs)
    \/ SettleReturn("r1", AllTexts)
    \/ Handle("r1")
    \/ Respond("r1")

SpecSettle == InitSettle /\ [][NextSettle]_vars

\* The lock methods of one StorageDO, called in any order as time passes.
InitDO == Init /\ ~Unconfigured(env) /\ env.X402_NETWORK = "mainnet"

NextLock == SyncLock \/ SyncUnlock \/ SyncExtend \/ SyncStatus \/ Tick(MaxTime)

SpecLock == InitDO /\ [][NextLock]_vars

\* The kv methods of one StorageDO, called in any order as time passes.
NextKv == KvSet \/ KvGet \/ KvList \/ KvDelete \/ Tick(MaxTime)

SpecKv == InitDO /\ [][NextKv]_vars

\* The paste methods of one StorageDO, called in any order as time passes.
NextPaste == PasteCreate \/ PasteGet \/ PasteDelete \/ Tick(MaxTime)

SpecPaste == InitDO /\ [][NextPaste]_vars

\* One isolate under one configuration, and the StorageDO of one payer.
InitIsolate == InitDO /\ env = CHOOSE e \in Envs : ~Unconfigured(e) /\ e.X402_NETWORK = "mainnet"

\* The memories table of one StorageDO.
NextMemory == MemoryStore \/ MemorySearch \/ MemoryDelete

SpecMemory == InitIsolate /\ [][NextMemory]_vars

\* The model cache of one isolate and the tasks that look models up.
NextCache ==
    \/ \E c \in Callers :
          LookupStart(c) \/ RefreshFinally(c) \/ LookupReturn(c)
    \/ FetchReturn
    \/ Wait

SpecCache == InitIsolate /\ [][NextCache]_vars

\* One manifest of every registry and price table.
SpecManifest == Init /\ [][GenerateManifest]_vars

\* The content writes of one payer and the scans they leave behind.
NextScan == KvSetHandle \/ MemoryStoreHandle \/ ScanReturn

SpecScan == InitIsolate /\ [][NextScan]_vars

\* The same cache under the scheduling of the isolate: client.getModels ends
\* (the request is aborted after FETCH_TIMEOUT_MS), and the event loop runs
\* the continuation of every task that awaits a settled promise.
SpecCacheLive ==
    /\ SpecCache
    /\ WF_vars(FetchReturn)
    /\ \A c \in Callers : WF_vars(RefreshFinally(c)) /\ WF_vars(LookupReturn(c))

\* The SQL sandbox of one StorageDO whose locks table is filled by lock.
NextSql == SyncLock \/ SqlQuery(SqlTexts) \/ SqlExecute(SqlTexts)

SpecSql == InitDO /\ [][NextSql]_vars

\* The queue methods of one StorageDO and the SQL sandbox on its database.
NextQueue ==
    \/ QueuePush \/ QueuePop \/ QueuePeek \/ QueueStatus \/ QueueClear
    \/ SqlExecute(QueueTexts) \/ Tick(MaxQueueTime)

SpecQueue == InitDO /\ [][NextQueue]_vars

\* ------------------------------------------------------------------ claims

Configured == ~Unconfigured(env)

\* The request passes token validation and price derivation.
Priceable(in) == tokenTypeStr(in) \in TOKENS /\ in.body # "invalid_json"

\* The settlement of the request returned success with a payer.
Settled(c) ==
    /\ c.relayCalled
    /\ c.settle.kind = "result"
    /\ c.settle.result.success
    /\ c.settle.result.payer \notin {Absent, ""}

\* The handler of the request was invoked.
Invoked(c) == c.pc = "handler" \/ c.handlerRan

\* C1 as stated: on every priced route the handler is invoked only after the
\* relay returned a successful settlement for that request.
C1_HandlerOnlyAfterSettlement_Original ==
    \A r \in Reqs : Invoked(req[r]) /\ Priced(req[r].in.ep) => Settled(req[r])

\* C1 amended: when the recipient address is configured, the handler of a
\* priced route is invoked only after the relay returned a successful
\* settlement for that request; a request with no payment header, an
\* undecodable payload or a failed or throwing settlement never reaches it.
C1_HandlerOnlyAfterSettlement ==
    \A r \in Reqs :
        Configured /\ Invoked(req[r]) /\ Priced(req[r].in.ep) =>
            /\ Settled(req[r])
            /\ req[r].in.paymentSignature # NoHeader
            /\ decodeBase64Json(req[r].in.paymentSignature) # Null

C1_Witness ==
    \E r \in Reqs :
        Configured /\ req[r].handlerRan /\ Priced(req[r].in.ep) /\ Settled(req[r])

\* C2: a storage operation with payer p bound changes no row of another
\* payer's shard, and what a get returns is the row of p's own shard.
C2_ShardIsolation ==
    [][\A r \in Reqs :
          (req[r].pc = "handler" /\ req'[r].pc = "done" /\ req[r].x402.set) =>
              LET p == req[r].x402.payerAddress
                  k == req[r].in.key
              IN  /\ \A q \in Payers \ {p} : shards'[q] = shards[q]
                  /\ (req[r].in.ep = "kvGet" /\ req'[r].status = 200) =>
                        req'[r].resBody.value = shards[p][k].value
                  /\ (req[r].in.ep = "kvGet" /\ req'[r].status = 404) =>
                        ~shards[p][k].present]_vars

\* Payer B's get of k is answered 404 while payer A's shard holds k.
C2_Witness ==
    \E r \in Reqs :
        /\ req[r].pc = "done" /\ req[r].in.ep = "kvGet"
        /\ req[r].x402.payerAddress = "SP_B" /\ req[r].status = 404
        /\ shards["SP_A"]["k"].present

\* C3: after a successful settlement the payer bound into the context, and
\* the shard the handler uses, is the payer the relay returned, whatever
\* payer address the client names.
C3_PayerIsRelayPayer ==
    \A r \in Reqs :
        Invoked(req[r]) /\ req[r].relayCalled =>
            /\ req[r].x402.set
            /\ req[r].x402.payerAddress = req[r].settle.result.payer
            /\ (req[r].in.ep \in StorageEndpoints /\ req[r].status \in {200, 404}) =>
                  req[r].shardUsed = req[r].settle.result.payer

C3_Witness ==
    \E r \in Reqs :
        /\ req[r].pc = "done" /\ req[r].in.ep = "kvSet" /\ req[r].status = 200
        /\ req[r].in.clientPayer = "SP_B" /\ req[r].settle.result.payer = "SP_A"
        /\ req[r].shardUsed = "SP_A"

\* The payment-response header decodes to the settlement result, with
\* success = true and a non-empty payer.
ReceiptPresent(c) ==
    LET d == decodeBase64Json(c.hdrs.paymentResponse)
    IN  /\ d # Null
        /\ d = stringify(c.settle.result)
        /\ d.success = TRUE
        /\ "payer" \in DOMAIN d
        /\ d.payer \notin {Absent, ""}

\* C4 as stated: every priced request that completes successfully carries
\* the receipt.
C4_ReceiptOnSuccess_Original ==
    \A r \in Reqs :
        (req[r].pc = "done" /\ Priced(req[r].in.ep) /\ req[r].status = 200) =>
            ReceiptPresent(req[r])

\* C4 amended: when the recipient address is configured, every priced
\* request that completes successfully carries a payment-response header
\* that decodes to the settlement result with success = true and a
\* non-empty payer.
C4_ReceiptOnSuccess ==
    \A r \in Reqs :
        (Configured /\ req[r].pc = "done" /\ Priced(req[r].in.ep) /\ req[r].status = 200) =>
            ReceiptPresent(req[r])

C4_Witness ==
    \E r \in Reqs :
        /\ Configured /\ req[r].pc = "done" /\ Priced(req[r].in.ep)
        /\ req[r].status = 200 /\ ReceiptPresent(req[r])

\* C5: the receipt is on the context when the handler starts, and a handler
\* that fails with a 5xx after a successful settlement, by returning or by
\* throwing, leaves a response with the receipt and an error body.
C5_ReceiptSurvivesHandlerFailure ==
    \A r \in Reqs :
        /\ (req[r].pc = "handler" /\ req[r].relayCalled) => ReceiptPresent(req[r])
        /\ (req[r].pc = "done" /\ req[r].handlerRan /\ req[r].relayCalled
              /\ req[r].status >= 500) =>
                ReceiptPresent(req[r]) /\ req[r].resBody.kind = "error"

\* A handler threw after a successful settlement.
C5_Witness ==
    \E r \in Reqs :
        /\ req[r].pc = "done" /\ req[r].handlerRan /\ req[r].relayCalled
        /\ req[r].status = 500 /\ req[r].resBody = [kind |-> "error", error |-> "Internal server error"]
        /\ ReceiptPresent(req[r])

\* The asset string the tests expect for a token on a network.
EXPECTED_ASSETS(network, token) ==
    CASE token = "STX" -> "STX"
      [] token = "sBTC" /\ network = "mainnet" ->
            "SM3VDXK3WZZSA84XXFKAFAF15NNZX32CTSG82JFQ4.sbtc-token"
      [] token = "sBTC" -> "ST1F7QA2MDF17S807EPA36TSS8AMEFY4KA9TVGWXT.sbtc-token"
      [] token = "USDCx" /\ network = "mainnet" ->
            "SP120SBRBQJ00MCWS7TM5R8WJNTTKD5K0HFRC2CNE.usdcx"
      [] OTHER -> "ST1PQHQKV0RJXZFY1DGX8MNSNYVE3VGZJSRTPGZGM.usdcx"

\* The response is a 402 whose header decodes to the challenge of the body.
IsChallenge(c) ==
    /\ c.status = 402
    /\ decodeBase64Json(c.hdrs.paymentRequired) # Null
    /\ c.resBody.kind = "payment_required"
    /\ decodeBase64Json(c.hdrs.paymentRequired) = c.resBody.json

\* accepts of the decoded challenge holds an entry for the token with a
\* nonzero amount.
HasEntryFor(c, token) ==
    LET d == decodeBase64Json(c.hdrs.paymentRequired)
    IN  \E i \in DOMAIN d.accepts :
            /\ d.accepts[i].asset = EXPECTED_ASSETS(env.X402_NETWORK, token)
            /\ d.accepts[i].amount # StrOf(0)

ReachesDecode(c) ==
    /\ Configured /\ c.pc # "idle" /\ Priced(c.in.ep) /\ Priceable(c.in)
    /\ c.in.paymentSignature # NoHeader

\* C7 as stated: a decoded payload without the requirement the client chose
\* is answered 400 and the relay is not called.
C7_MissingAcceptedRejected_Original ==
    \A r \in Reqs :
        (ReachesDecode(req[r])
            /\ decodeBase64Json(req[r].in.paymentSignature) # Null
            /\ "accepted" \notin DOMAIN decodeBase64Json(req[r].in.paymentSignature)) =>
                req[r].pc = "done" /\ req[r].status = 400 /\ ~req[r].relayCalled

\* C7 amended: a payment-signature header that does not decode, or whose
\* payload is not of protocol version 2, is answered 400 and the relay is
\* not called; a version 2 payload is handed to the relay, also when it
\* does not contain the requirement the client chose.
C7_InvalidPayloadRejected ==
    \A r \in Reqs :
        ReachesDecode(req[r]) =>
            LET d == decodeBase64Json(req[r].in.paymentSignature)
            IN  IF d = Null \/ d.x402Version # 2
                THEN req[r].pc = "done" /\ req[r].status = 400 /\ ~req[r].relayCalled
                ELSE req[r].relayCalled

C7_Witness ==
    \E r \in Reqs :
        /\ ReachesDecode(req[r])
        /\ decodeBase64Json(req[r].in.paymentSignature) # Null
        /\ "accepted" \notin DOMAIN decodeBase64Json(req[r].in.paymentSignature)
        /\ decodeBase64Json(req[r].in.paymentSignature).x402Version = 2
        /\ req[r].relayCalled

\* A row of the taxonomy table: it matches a text that contains every word
\* of need and, when any is not empty, one of the words of any.
Row(need, any, http, retry) == [need |-> need, any |-> any, http |-> http, retry |-> retry]

RowMatches(row, words) ==
    /\ row.need \subseteq words
    /\ row.any # {} => row.any \cap words # {}

\* The rows below the first one, in the order of the table.
TaxonomyTail ==
    <<Row({}, {"503", "unavailable"}, 503, 30),
      Row({}, {"insufficient", "balance"}, 402, 0),
      Row({}, {"expired", "nonce"}, 402, 0),
      Row({"amount"}, {"low", "minimum"}, 402, 0),
      Row({}, {"invalid", "signature"}, 400, 0),
      Row({}, {"recipient"}, 400, 0),
      Row({}, {"broadcast_failed", "broadcast failed"}, 502, 5),
      Row({}, {"transaction_failed", "transaction failed"}, 402, 0),
      Row({}, {"transaction_pending", "transaction pending"}, 402, 10),
      Row({}, {"sender_mismatch", "sender mismatch"}, 400, 0),
      Row({}, {"unsupported_scheme", "unsupported scheme"}, 400, 0)>>

\* The table as the specification writes it: the first row is network / timeout.
TaxonomyAsWritten == <<Row({}, {"network", "timeout"}, 502, 5)>> \o TaxonomyTail

\* The table with a first row that also matches fetch.
TaxonomyWithFetch == <<Row({}, {"fetch", "network", "timeout"}, 502, 5)>> \o TaxonomyTail

TaxonomyDefault == Row({}, {}, 500, 5)

\* The first row of the table that matches, else the default row.
FirstMatch(table, words) ==
    LET I == {i \in DOMAIN table : RowMatches(table[i], words)}
    IN  IF I = {} THEN TaxonomyDefault
        ELSE table[CHOOSE i \in I : \A j \in I : i <= j]

\* The settlement of the request threw or returned without success.
SettleFailed(c) ==
    /\ c.pc = "done" /\ c.relayCalled
    /\ c.settle.kind = "throw" \/ (c.settle.kind = "result" /\ ~c.settle.result.success)

\* The keywords of the error text of a failed settlement.
FailureWords(c) ==
    IF c.settle.kind = "throw" THEN c.settle.error.words
    ELSE c.settle.result.errorReason.words

AnsweredByRow(c, table) ==
    /\ c.status = FirstMatch(table, FailureWords(c)).http
    /\ c.hdrs.retryAfter = FirstMatch(table, FailureWords(c)).retry

\* C8 as stated: every settlement failure is answered with the status and
\* Retry-After of the row of the written table that its error text matches.
C8_FailureAnsweredByTable_Original ==
    \A r \in Reqs : SettleFailed(req[r]) => AnsweredByRow(req[r], TaxonomyAsWritten)

\* C8 amended: every settlement failure is answered with the status and
\* Retry-After of the first row, in table order, that its lower-cased error
\* text matches, where the network / timeout row also matches "fetch", the
\* amount row needs "amount" together with "low" or "minimum", and a text
\* that matches no row gets the default row.
C8_FailureAnsweredByFirstRow ==
    \A r \in Reqs : SettleFailed(req[r]) => AnsweredByRow(req[r], TaxonomyWithFetch)

\* An upper-case pending-transaction reason is answered 402, Retry-After 10,
\* and a thrown broadcast failure 502, Retry-After 5.
C8_Witness ==
    \E r \in Reqs :
        /\ SettleFailed(req[r])
        /\ \/ /\ req[r].settle.kind = "result"
              /\ req[r].settle.result.errorReason = MkText({"transaction_pending"}, TRUE)
              /\ req[r].status = 402 /\ req[r].hdrs.retryAfter = 10
           \/ /\ req[r].settle.kind = "throw"
              /\ req[r].settle.error = MkText({"broadcast_failed"}, FALSE)
              /\ req[r].status = 502 /\ req[r].hdrs.retryAfter = 5

\* C9: a priced request whose signed payment is in the X-PAYMENT header is
\* not answered with a challenge: it is decoded and handed to the relay.
C9_LegacyHeaderAccepted ==
    \A r \in Reqs :
        (Configured /\ req[r].pc # "idle" /\ Priced(req[r].in.ep) /\ Priceable(req[r].in)
            /\ req[r].in.paymentSignature = NoHeader
            /\ PayloadValid(decodeBase64Json(req[r].in.xPayment))) =>
                req[r].status # 402 /\ req[r].relayCalled

\* C10: every requirement of a 402 challenge carries the timeout of its
\* tier: 120 seconds on a dynamic route, 60 seconds on a fixed one.
C10_ChallengeTimeoutPerTier ==
    \A r \in Reqs :
        (req[r].pc = "done" /\ IsChallenge(req[r])) =>
            \A i \in DOMAIN req[r].resBody.json.accepts :
                req[r].resBody.json.accepts[i].maxTimeoutSeconds =
                    getTimeoutForTier(IF X402Options(req[r].in.ep).dynamic THEN "dynamic"
                                      ELSE X402Options(req[r].in.ep).tier)

\* A lock method of the given names ran last and returned.
Returned(ops) == last.op \in ops /\ ~last.res.threw

\* C11: a lock call that returns acquires if and only if no unexpired row
\* for the name exists in the shard at the moment of the call; an
\* acquisition leaves the row of the new holder, and it follows an earlier
\* acquisition of the name only if that one was released or had expired.
C11_LockIffNoUnexpiredRow ==
    Returned({"lock"}) =>
        /\ last.res.ok <=> ~(last.pre.present /\ last.pre.expires_at > last.at)
        /\ last.res.ok =>
              /\ db.locks[last.name] =
                    [present |-> TRUE, token |-> last.res.token,
                     expires_at |-> last.res.expiresAt]
              /\ last.hist.acquired =>
                    last.hist.unlocked \/ last.hist.expiry <= last.at
        /\ ~last.res.ok => db.locks[last.name] = last.pre

\* A lock is acquired again after the earlier holder's lock expired unreleased.
C11_Witness ==
    /\ Returned({"lock"}) /\ last.res.ok
    /\ last.hist.acquired /\ ~last.hist.unlocked /\ last.pre.present

\* C12: unlock and extend succeed only when the supplied token is the token
\* of the row of the lock; with another token, or without a row, the call
\* fails and leaves the row as it was.
C12_TokenRequired ==
    (last.op \in {"unlock", "extend"}) =>
        /\ last.res.ok => last.pre.present /\ last.pre.token = last.token
        /\ ~(last.pre.present /\ last.pre.token = last.token) =>
              ~last.res.ok /\ db.locks[last.name] = last.pre

\* An extend with another token than the holder's fails.
C12_Witness ==
    /\ last.op = "extend" /\ last.pre.present /\ last.pre.token # last.token
    /\ last.pre.expires_at > last.at
    /\ ~last.res.ok /\ db.locks[last.name] = last.pre

\* C13 as stated: lock succeeds if and only if no prior lock of the name
\* succeeded within the last ttl seconds, or the prior holder's token was
\* supplied to unlock or extend before expiry.
C13_LockLiveness_Original ==
    Returned({"lock"}) =>
        (last.res.ok <=>
            \/ ~last.hist.acquired
            \/ last.hist.lockExpiry <= last.at
            \/ last.hist.supplied)

\* C13 amended: lock succeeds if and only if no prior lock of the name
\* succeeded, or the latest successful one has expired (its clamped ttl,
\* counted from the acquisition or from its latest successful extend, has
\* passed), or the token of its holder was supplied to unlock.
C13_LockLiveness ==
    Returned({"lock"}) =>
        (last.res.ok <=>
            \/ ~last.hist.acquired
            \/ last.hist.expiry <= last.at
            \/ last.hist.unlocked)

\* A lock fails later than ttl seconds after the acquisition, because the
\* holder extended it.
C13_Witness ==
    /\ Returned({"lock"}) /\ ~last.res.ok
    /\ last.hist.acquired /\ last.hist.lockExpiry <= last.at /\ last.hist.expiry > last.at

\* C14: a successful lock or extend sets the expiry to the ttl after the
\* call, where a ttl below 10 counts as 10, a ttl above 300 as 300 and no
\* ttl as 60: never less than 10 or more than 300 seconds after the call.
C14_TtlClamped ==
    (last.op \in {"lock", "extend"} /\ last.res.ok) =>
        LET after == db.locks[last.name].expires_at - last.at IN
        /\ db.locks[last.name].expires_at = last.res.expiresAt
        /\ after >= 10 /\ after <= 300
        /\ last.ttl.kind = "undefined" => after = 60
        /\ (last.ttl.kind = "number" /\ last.ttl.n < 10) => after = 10
        /\ (last.ttl.kind = "number" /\ last.ttl.n > 300) => after = 300
        /\ (last.ttl.kind = "number" /\ last.ttl.n >= 10 /\ last.ttl.n <= 300) =>
              after = last.ttl.n

\* An extend with ttl 400 moves the expiry to 300 seconds after the call.
C14_Witness ==
    /\ last.op = "extend" /\ last.res.ok /\ last.ttl = NumTtl(400)
    /\ db.locks[last.name].expires_at = last.at + 300

\* ------------------------------------------------------------ queue claims

\* The row of a job in the jobs table.
JobOf(jobs, id) == CHOOSE j \in Rows(jobs) : j.id = id

\* The ids of the items a pop or a peek returned.
ItemIds(items) == {items[i].id : i \in DOMAIN items}

\* C15: pop returns the pending items of a queue by descending priority, and
\* items of equal priority in the order they were pushed, whether one push
\* call or several pushed them: of two items of a pop the earlier has the
\* higher priority or the same priority and the earlier push, and a pop
\* leaves no available pending job behind that should come before an item it
\* returned.
C15_PopFifo ==
    [][last'.op = "pop" =>
         LET items == last'.res.items
             t == cleanupVisibilityTimeouts(db.jobs, last'.queue, clock)
             Before(a, b) ==
                 \/ a.priority > b.priority
                 \/ a.priority = b.priority /\ a.id < b.id IN
         /\ \A i, j \in DOMAIN items :
                i < j => Before(JobOf(t, items[i].id), JobOf(t, items[j].id))
         /\ \A i \in DOMAIN items :
                \A r \in PopRows(t, last'.queue, clock) :
                    r.id \notin ItemIds(items) => Before(JobOf(t, items[i].id), r)]_vars

\* C16: pop removes the jobs it returns: no job that a pop returned is in the
\* jobs table, so that no later pop returns it again, and no later peek shows
\* it, and the status counts are those of the jobs that were never popped.
C16_PopRemoves ==
    [][/\ \A j \in Rows(db'.jobs) : j.id \notin ghost'.popped
       /\ last'.op = "pop" => ItemIds(last'.res.items) \cap ghost.popped = {}
       /\ last'.op = "peek" => ItemIds(last'.res.items) \cap ghost.popped = {}
       /\ last'.op = "status" =>
              last'.res.pending + last'.res.processing + last'.res.completed
                  + last'.res.failed
              = Cardinality({j \in Rows(db.jobs) :
                               j.queue = last'.queue /\ j.id \notin ghost.popped})]_vars

\* C16 witness: a job that a pop returned earlier, and a later peek that
\* returns another job.
C16_Witness ==
    /\ last.op = "peek"
    /\ last.res.count > 0
    /\ ghost.popped # {}

\* C17: pop, peek and status first move every processing job of the queue
\* whose visibility timeout has elapsed back to pending with its attempt
\* incremented by one, and the same call sees the job: pop returns and
\* deletes it or returns as many jobs as it was asked for, peek shows it or
\* shows as many jobs as it was asked for, and status counts it as pending.
C17_HygieneFirst ==
    [][last'.op \in {"pop", "peek", "status"} =>
         \A j \in Rows(db.jobs) :
             Elapsed(j, last'.queue, clock) =>
                 LET moved == [j EXCEPT !.status = "pending",
                                        !.visibility_timeout = SqlNull,
                                        !.attempt = j.attempt + 1]
                     pre == Rows(db.jobs) IN
                 /\ j.id \in last'.revived
                 /\ last'.op = "pop" =>
                        \/ j.id \in ItemIds(last'.res.items) /\ moved \notin Rows(db'.jobs)
                        \/ /\ moved \in Rows(db'.jobs)
                           /\ Len(last'.res.items) = safeCount(last'.count)
                 /\ last'.op = "peek" =>
                        /\ moved \in Rows(db'.jobs)
                        /\ \/ j.id \in ItemIds(last'.res.items)
                           \/ Len(last'.res.items) = safeCount(last'.count)
                 /\ last'.op = "status" =>
                        /\ moved \in Rows(db'.jobs)
                        /\ last'.res.pending =
                              Cardinality({r \in pre : /\ r.queue = last'.queue
                                                       /\ \/ r.status = "pending"
                                                          \/ Elapsed(r, r.queue, clock)})
                        /\ last'.res.processing =
                              Cardinality({r \in pre : /\ r.queue = last'.queue
                                                       /\ r.status = "processing"
                                                       /\ ~Elapsed(r, r.queue, clock)})]_vars

\* C17 witness: a peek whose hygiene step moved a job back to pending, and
\* that shows the job, now on its second attempt.
C17_Witness ==
    /\ last.op = "peek"
    /\ \E id \in last.revived :
           /\ id \in ItemIds(last.res.items)
           /\ JobOf(db.jobs, id).status = "pending"
           /\ JobOf(db.jobs, id).attempt = 1

\* ---------------------------------------------------------------- kv claims

\* C18: the calls to one payer's shard take effect one after the other, also
\* when the requests that make them are served in parallel: a get returns
\* the value of the latest set on the key that returned before it, or
\* nothing when no set returned or a delete returned after it, and the kv
\* table of every shard is at each moment what the calls that have returned
\* have written, with no row of a call that did not return.
C18_ShardTotalOrder ==
    [][/\ \A p \in Payers, k \in Keys :
              /\ shards'[p][k].present <=> ghost'.written[p][k] # Absent
              /\ shards'[p][k].value = ghost'.written[p][k]
       /\ \A r \in Reqs :
              (/\ req[r].pc = "handler" /\ req'[r].pc = "done"
               /\ req[r].in.ep = "kvGet" /\ req'[r].shardUsed # Absent) =>
                  LET w == ghost.written[req'[r].shardUsed][req[r].in.key] IN
                  IF w = Absent THEN req'[r].status = 404
                  ELSE req'[r].status = 200 /\ req'[r].resBody.value = w]_vars

\* C18 witness: while one request of a payer is still on its way, a second
\* request of the same payer has read the value that a set wrote to the
\* shard.
C18_Witness ==
    /\ req["r1"].pc \notin {"idle", "done"}
    /\ req["r1"].in.ep = "kvSet"
    /\ req["r2"].pc = "done" /\ req["r2"].in.ep = "kvGet"
    /\ req["r2"].status = 200
    /\ req["r2"].shardUsed = "SP_A"
    /\ req["r2"].resBody.value = "v2"

\* The ttl of the latest set of the key has not elapsed, or it gave none.
Kept(h, now) == h.deadline = SqlNull \/ ~(h.deadline[1] < now)

\* C19 as stated: a get of a key returns the value of the latest set of the
\* key when no set or delete of the key came between, and null after a delete
\* until the key is set again.
C19_GetAfterSet_Original ==
    last.op = "get" =>
        LET h == ghost.kv[last.key] IN
        /\ h.op = "set" => last.res.value = h.value
        /\ h.op = "delete" => last.res.value = Absent

\* C19: a get of a key returns the value of the latest set of the key when
\* no set or delete of the key came between and the ttl of the set, if it
\* gave one, has not elapsed; it returns null when the ttl has elapsed, and
\* after a delete until the key is set again.
C19_GetAfterSet ==
    last.op = "get" =>
        LET h == ghost.kv[last.key] IN
        /\ (h.op = "set" /\ Kept(h, last.at)) => last.res.value = h.value
        /\ (h.op = "set" /\ ~Kept(h, last.at)) => last.res.value = Absent
        /\ h.op = "delete" => last.res.value = Absent

\* C19 witness: a get returns the value that a set with a ttl wrote, after
\* time has passed and while the other key was deleted.
C19_Witness ==
    /\ last.op = "get" /\ last.key = "k" /\ last.at > 0
    /\ ghost.kv["k"].op = "set" /\ ghost.kv["k"].deadline # SqlNull
    /\ ghost.kv["j"].op = "delete"
    /\ last.res.value = ghost.kv["k"].value

\* C20: a set that returns reports created = true exactly when the key does
\* not exist before the call, where a key exists when the latest set or
\* delete of it was a set whose ttl, if it gave one, has not elapsed.
C20_CreatedIffAbsent ==
    [][(last'.op = "set" /\ ~last'.res.threw) =>
           LET h == ghost.kv[last'.key] IN
           last'.res.created <=> ~(h.op = "set" /\ Kept(h, clock))]_vars

\* The keys a list returned.
ListedKeys(keys) == {keys[i] : i \in DOMAIN keys}

\* C21: a value set with a ttl of t seconds is returned by every get made
\* less than t seconds after the set, and is returned by no get and no list
\* made more than t seconds after the set, as long as no later set or delete
\* of the key came between.
C21_TtlVisibility ==
    LET Ttl(h) == h.op = "set" /\ h.ttl.kind = "number" IN
    /\ last.op = "get" =>
           LET h == ghost.kv[last.key] IN
           Ttl(h) =>
               /\ last.at - h.at < h.ttl.n => last.res.value = h.value
               /\ last.at - h.at > h.ttl.n => last.res.value = Absent
    /\ last.op = "list" =>
           \A k \in KvKeys :
               LET h == ghost.kv[k] IN
               (Ttl(h) /\ last.at - h.at > h.ttl.n) => k \notin ListedKeys(last.res.keys)

\* --------------------------------------------------------------- paste claims

C23_SystemTablesUnreachable ==
    [][last'.op \in {"query", "execute"} =>
           /\ db'.kv = db.kv /\ db'.pastes = db.pastes
           /\ db'.locks = db.locks /\ db'.jobs = db.jobs
           /\ last'.op = "query" =>
                  \A row \in last'.res.rows : row.table \notin SystemTables]_vars

\* C24: a query that does not begin with SELECT, or that holds one of the
\* forbidden keywords, is rejected and not executed, and so no query changes
\* the database of the shard.
C24_QueryReadOnly ==
    [][last'.op = "query" =>
           LET q == last'.query IN
           /\ (~queryStartsWith(q, "SELECT")
                 \/ \E keyword \in Dangerous : queryIncludes(q, keyword)) =>
                  last'.res.threw /\ db' = db
           /\ db' = db]_vars

\* ------------------------------------------------------- model cache claims

\* The tasks that await a refresh whose promise is not settled.
Waiting == {c \in Callers : lookups[c].pc = "await"
                              /\ ghost.refresh.outcome[lookups[c].promise] = "pending"}

\* C25: however many lookups find the cache stale at the same time, at most
\* one request for the model list is under way, and every task that waits
\* for a refresh waits for that one, the refresh of inflightRefresh.
C25_SingleFlight ==
    /\ Cardinality(fetches) <= 1
    /\ \A c \in Waiting :
          lookups[c].promise = cache.inflightRefresh /\ fetches = {lookups[c].promise}

\* Three lookups found the cache stale; one started the refresh, two joined it.
C25_Witness ==
    /\ Waiting = Callers
    /\ Cardinality({c \in Callers : lookups[c].owner}) = 1
    /\ Cardinality(fetches) = 1

\* C26: a lookup starts a refresh only when the cache is empty or more than
\* an hour has passed since the last successful refresh, and never while
\* less than 30 seconds have passed since the last failed refresh, whether
\* the cache is empty or populated.
C26_RefreshOnlyWhenDue ==
    [][ghost'.refresh.issued # ghost.refresh.issued =>
           /\ \/ Size(cache.modelRegistry) = 0
              \/ cache.fetchedAt = Never
              \/ DateNow(clock) - cache.fetchedAt > CACHE_TTL_MS
           /\ ~(cache.lastFailedAt # Never
                  /\ DateNow(clock) - cache.lastFailedAt < RETRY_BACKOFF_MS)]_vars

\* C27: a refresh that fails, by a transport error, by the timeout or by an
\* error while the fetched list is processed, leaves the registry as it was
\* and records the time of the failure.
C27_FailureKeepsCache ==
    [][last'.op = "refresh" /\ last'.failed =>
           /\ cache'.modelRegistry = cache.modelRegistry
           /\ cache'.lastFailedAt = DateNow(clock)]_vars

C29_SearchResults ==
    [][last'.op = "memorySearch" =>
           LET results == last'.res.results
               threshold == Coalesce(last'.args.threshold, 50)
               limit == Coalesce(last'.args.limit, 10) IN
           /\ \A i \in DOMAIN results : results[i].similarity >= threshold
           /\ \A i, j \in DOMAIN results :
                  i < j => results[i].similarity >= results[j].similarity
           /\ Len(results) <= Max(limit, 0)]_vars

\* C30: delete(ids) removes the requested ids that were in the table and no
\* other row, and reports those ids, each once, and their number.
C30_DeleteReportsExisting ==
    [][last'.op = "memoryDelete" =>
           LET ids == last'.args.ids
               existed == {k \in MemIds :
                             db.memories[k].present /\ \E i \in DOMAIN ids : ids[i] = k}
               reported == last'.res.ids IN
           /\ {reported[i] : i \in DOMAIN reported} = existed
           /\ Len(reported) = Cardinality(existed)
           /\ last'.res.deleted = Cardinality(existed)
           /\ \A k \in MemIds :
                  db'.memories[k] = IF k \in existed THEN NoMemory ELSE db.memories[k]]_vars

\* A delete of two ids, of which one was in the table, has removed that one
\* and left another row.
C30_Witness ==
    /\ last.op = "memoryDelete" /\ Len(last.args.ids) = 2
    /\ last.args.ids[1] # last.args.ids[2]
    /\ last.res.deleted = 1 /\ Len(last.res.ids) = 1
    /\ ~db.memories[last.res.ids[1]].present
    /\ \E k \in MemIds : db.memories[k].present

\* ------------------------------------------------------ payment claims, II

\* The relay returned success for the request, without a payer address.
SuccessWithoutPayer(c) ==
    /\ c.relayCalled /\ c.settle.kind = "result"
    /\ c.settle.result.success
    /\ c.settle.result.payer \in {Absent, ""}

\* C35: a settlement result with success and no payer address is not bound
\* as the identity of the request and does not reach the handler: the
\* request is answered 500 with the code SENDER_MISMATCH, without a receipt,
\* and it uses no shard.
C35_NoPayerNoIdentity ==
    \A r \in Reqs :
        SuccessWithoutPayer(req[r]) =>
            /\ req[r].pc = "done" /\ req[r].status = 500
            /\ req[r].resBody = errorBody("no_payer", "SENDER_MISMATCH")
            /\ ~req[r].x402.set
            /\ ~req[r].handlerRan
            /\ req[r].shardUsed = Absent
            /\ req[r].hdrs.paymentResponse = NoHeader

\* The relay returned success with an empty payer for a storage request.
C35_Witness ==
    \E r \in Reqs :
        /\ SuccessWithoutPayer(req[r]) /\ req[r].settle.result.payer = ""
        /\ req[r].in.ep = "kvSet" /\ req[r].status = 500

\* The request as it would be with another payment payload.
WithAccepted(in, a) == [in EXCEPT !.paymentSignature = encodeBase64Json(PaymentPayload(2, a))]

\* C36: the requirements handed to the relay are the ones computed from the
\* route's tier, the token and the body of the request and from the
\* gateway's configuration: the amount is the price of the request, the
\* recipient the gateway's address, and the same request with any other
\* payload is settled against the same requirements.
C36_RelayRequirementsFromGateway ==
    \A r \in Reqs :
        req[r].relayCalled =>
            LET in == req[r].in
                tokenType == tokenTypeStr(in)
                requirements == req[r].relayArgs.requirements IN
            /\ requirements.amount = StrOf(priceEstimate(in, tokenType))
            /\ requirements.payTo = env.X402_SERVER_ADDRESS
            /\ requirements.asset = getAssetV2(tokenType, env.X402_NETWORK)
            /\ requirements.network = networkToCAIP2(env.X402_NETWORK)
            /\ req[r].relayArgs.payload = decodeBase64Json(in.paymentSignature)
            /\ \A a \in {NoHeader, Accepted, AcceptedCheap} :
                  MiddlewareStart([IdleReq EXCEPT !.in = WithAccepted(in, a)], env)
                      .relayArgs.requirements = requirements

\* The relay was called for a request whose payload claims a requirement
\* with amount 0 and the client as recipient.
C36_Witness ==
    \E r \in Reqs :
        /\ req[r].relayCalled
        /\ "accepted" \in DOMAIN req[r].relayArgs.payload
        /\ req[r].relayArgs.payload.accepted = AcceptedCheap
        /\ req[r].relayArgs.requirements.amount # StrOf(0)
        /\ req[r].relayArgs.requirements.payTo = "SP_SERVER"

\* The rows of the table that match the words.
MatchingRows(table, words) == {i \in DOMAIN table : RowMatches(table[i], words)}

\* C37: the classification is first-match over the table in its order,
\* applied to the words of the exception text and of the relay's error
\* reason together, whatever their case: of the rows that match, the
\* earliest alone gives the status and the Retry-After.
C37_FirstMatchDecides ==
    last.op = "classify" =>
        LET words == last.error.words \cup last.resultReason.words
            row == FirstMatch(TaxonomyWithFetch, words) IN
        /\ last.res.httpStatus = row.http
        /\ last.res.retryAfter = row.retry

\* An upper-case text that matches the recipient row and the sender-mismatch
\* row was classified together with a reason that matches the first row,
\* which decided.
C37_Witness ==
    /\ last.op = "classify"
    /\ last.error = MkText({"recipient", "sender_mismatch"}, TRUE)
    /\ last.resultReason = MkText({"fetch"}, FALSE)
    /\ Cardinality(MatchingRows(TaxonomyWithFetch,
                                last.error.words \cup last.resultReason.words)) = 3
    /\ last.res.httpStatus = 502 /\ last.res.retryAfter = 5
    /\ last.res.code = "UNEXPECTED_SETTLE_ERROR"

\* ----------------------------------------------------------- lock claims, II

\* C38: a successful extend does not move the expiry of the lock to an
\* earlier time than the lock had before the call.
C38_ExtendNeverShortens ==
    [][(last'.op = "extend" /\ last'.res.ok) =>
           db'.locks[last'.name].expires_at >= db.locks[last'.name].expires_at]_vars

\* ---------------------------------------------------- model cache claims, II

\* C39: after a refresh has succeeded, no lookup starts another request for
\* the model list until more than an hour has passed since that success,
\* whatever the list held.
C39_NoRefreshWithinTtl ==
    [][ghost'.refresh.issued # ghost.refresh.issued =>
           \/ cache.fetchedAt = Never
           \/ DateNow(clock) - cache.fetchedAt > CACHE_TTL_MS]_vars

\* C40: the marker of the refresh under way is cleared when the refresh ends,
\* however it ends: every lookup that awaits a refresh returns in the end,
\* and a marker that is set is cleared in the end, so that a later lookup
\* can start a refresh again.
C40_MarkerCleared ==
    /\ \A c \in Callers : (lookups[c].pc = "await") ~> (lookups[c].pc = "idle")
    /\ (cache.inflightRefresh # Never) ~> (cache.inflightRefresh = Never)

\* A lookup has returned from a refresh that failed, the marker is cleared,
\* and that refresh was not the first one.
C40_Witness ==
    /\ last.op = "lookup" /\ last.refresh = "failed"
    /\ cache.inflightRefresh = Never
    /\ ghost.refresh.issued >= 2
    /\ \A c \in Callers : lookups[c].pc = "idle"

\* -------------------------------------------------------- safety scan claims

\* No scan under way has the content of the id still to scan.
ScansDone(id) == \A t \in scans : \A i \in t.i..Len(t.ids) : t.ids[i] # id

\* C31: the shard holds at most one verdict for a content id, and once all
\* scans scheduled for the writes of an id have ended, the verdict stored
\* for the id is the one of the most recent write of the id.
C31_LatestVerdictWins ==
    /\ \A r1, r2 \in db.content_scans : r1.id = r2.id => r1 = r2
    /\ \A id \in ScanIds :
          (ghost.scan.latest[id] > 0 /\ ScansDone(id)) =>
              ghost.scan.stored[id] = ghost.scan.latest[id]

\* C32: a content write is answered while its scan is still to run: no
\* verdict was written for it, its task stands before its first classifier
\* result, and the response is the one the write alone determines.
C32_ResponseBeforeScan ==
    [][(last'.op \in {"kvSet", "memoryStore"} /\ last'.status = 200) =>
           /\ db'.content_scans = db.content_scans
           /\ \E t \in scans' : t.n = last'.n /\ t.ids = last'.ids /\ t.i = 1
           /\ last'.body =
                 IF last'.op = "kvSet"
                 THEN [ok |-> TRUE, key |-> last'.ids[1],
                       created |-> ~db.kv[last'.ids[1]].present]
                 ELSE [ok |-> TRUE, stored |-> Len(last'.ids), items |-> last'.ids]]_vars

\* The second write was answered while the scan of the first one has not
\* ended.
C32_Witness ==
    /\ last.op = "kvSet" /\ last.status = 200 /\ last.n = 2
    /\ \E t \in scans : t.n = 1
    /\ \E t \in scans : t.n = 2

\* The classifier call threw, returned no text, or returned a text that
\* parseVerdict turns down.
ScanFailed(outcome) == outcome.kind # "text" \/ parseVerdict(outcome.raw).null

\* The reason scanContent gives for a failed scan.
FailureReason(outcome) ==
    IF outcome.kind = "throws" THEN Chars("scan_error", "")
    ELSE IF outcome.kind = "empty" THEN Chars("empty_response", "")
    ELSE Chars("parse_error", "")

RECURSIVE PricedEntries(_, _, _)
PricedEntries(registry, pricing, conversion) ==
    IF registry = <<>> THEN <<>>
    ELSE LET info == Head(registry)
             rest == PricedEntries(Tail(registry), pricing, conversion) IN
         IF /\ info.tier # "free"
            /\ \E t \in TOKENS : getAmountForTier(pricing, conversion, info.tier, t)[2] # 0
         THEN <<info>> \o rest ELSE rest

\* C34: the manifest lists, in the order of the registry, the entries that
\* are not free and have a requirement, and no other; every requirement it
\* lists has an amount other than 0, and every item has a requirement.
C34_ManifestPricedOnly ==
    last.op = "manifest" =>
        LET items == last.res.items
            priced == PricedEntries(last.registry, last.pricing, last.conversion) IN
        /\ Len(items) = Len(priced)
        /\ \A i \in DOMAIN items :
              /\ items[i].resource.path = normalizePath(priced[i].path)
              /\ priced[i].tier # "free"
              /\ items[i].accepts # <<>>
              /\ \A k \in DOMAIN items[i].accepts :
                    /\ items[i].accepts[k].amount # StrOf(0)
                    /\ items[i].accepts[k].amount[2] > 0

\* A registry of a free entry and a priced one, with a token that converts
\* to 0: the manifest lists the priced entry alone, without that token.
C34_Witness ==
    /\ last.op = "manifest"
    /\ Len(last.registry) = 2 /\ last.registry[1].tier = "free"
    /\ Len(last.res.items) = 1
    /\ Len(last.res.items[1].accepts) = 2
    /\ last.conversion["sBTC"] = 0

====
